---- MODULE Spec2Model ----
(***************************************************************************)
(* Dashboard layout engine: a fixed-width, vertically unbounded grid of    *)
(* rectangular components.  The source holds two layoutEngine modules: the *)
(* domino-push engine (add, remove, reposition, the three resizes), whose  *)
(* functions are modelled first and called one at a time on bounded sets   *)
(* of layouts, and the gravity engine that exports stabilize, which is the *)
(* one App and DashboardGrid import and the page actions call.             *)
(***************************************************************************)
EXTENDS Integers, Sequences, FiniteSets, TLC

VARIABLES items, idCounter, last

vars == <<items, idCounter, last>>

----------------------------------------------------------------------------
(* Constants of the program *)

GRID_COLUMNS == 12

MAX_COMPONENT_HEIGHT == 8

DEFAULT_SIZES ==
  [Chart |-> [width |-> 6, height |-> 2],
   Grid |-> [width |-> 12, height |-> 3],
   KPI |-> [width |-> 3, height |-> 1],
   StylizedKPIGraph |-> [width |-> 4, height |-> 2]]

(* Bounds of the exploration *)

MaxItems == 3

----------------------------------------------------------------------------
(* Values *)

(* null as returned in place of a position, and in place of an item list *)

nullCell == [null |-> TRUE]

null == <<nullCell>>

undefined == "undefined"

GridItem(id, type, x, y, w, h) ==
  [componentId |-> id, componentType |-> type,
   x |-> x, y |-> y, width |-> w, height |-> h]

Min(a, b) == IF a < b THEN a ELSE b

(* Math.round of a quotient of integers, b > 0 *)
round(a, b) == (2 * a + b) \div (2 * b)

Max(a, b) == IF a > b THEN a ELSE b

----------------------------------------------------------------------------
(* Geometry utilities *)

overlaps(a, b) ==
  /\ a.x < b.x + b.width
  /\ b.x < a.x + a.width
  /\ a.y < b.y + b.height
  /\ b.y < a.y + a.height

vOverlaps(a, b) ==
  /\ a.y < b.y + b.height
  /\ b.y < a.y + a.height

(* canFit with a closed-interval overlap test: touching edges collide *)
canFit_closed(its, x, y, w, h, excludeId) ==
  IF x < 0 \/ y < 0 \/ x + w > GRID_COLUMNS \/ h > MAX_COMPONENT_HEIGHT
  THEN FALSE
  ELSE ~ \E k \in 1..Len(its) :
           /\ its[k].componentId # excludeId
           /\ x <= its[k].x + its[k].width
           /\ its[k].x <= x + w
           /\ y <= its[k].y + its[k].height
           /\ its[k].y <= y + h

(* canFit without the test of the right edge against the last column *)
canFit_noRightEdge(its, x, y, w, h, excludeId) ==
  IF x < 0 \/ y < 0 \/ h > MAX_COMPONENT_HEIGHT
  THEN FALSE
  ELSE LET test == GridItem("", "", x, y, w, h)
       IN  ~ \E k \in 1..Len(its) :
               its[k].componentId # excludeId /\ overlaps(test, its[k])

canFit(its, x, y, w, h, excludeId) ==
  IF x < 0 \/ y < 0 \/ x + w > GRID_COLUMNS \/ h > MAX_COMPONENT_HEIGHT
  THEN FALSE
  ELSE LET test == GridItem("", "", x, y, w, h)
       IN  ~ \E k \in 1..Len(its) :
               its[k].componentId # excludeId /\ overlaps(test, its[k])

RECURSIVE maxBottom(_)
maxBottom(its) ==
  IF its = <<>> THEN 0
  ELSE LET m == maxBottom(Tail(its))
           b == Head(its).y + Head(its).height
       IN  IF Len(its) = 1 THEN b ELSE Max(b, m)

getMaxRow(its) == IF Len(its) = 0 THEN 0 ELSE maxBottom(its)

----------------------------------------------------------------------------
(* Array helpers of the engine *)

has(its, componentId) ==
  \E k \in 1..Len(its) : its[k].componentId = componentId

find(its, componentId) ==
  IF has(its, componentId)
  THEN its[CHOOSE k \in 1..Len(its) :
             /\ its[k].componentId = componentId
             /\ \A m \in 1..(k - 1) : its[m].componentId # componentId]
  ELSE undefined

without(its, componentId) ==
  SelectSeq(its, LAMBDA i : i.componentId # componentId)

----------------------------------------------------------------------------
(* Free-cell search *)

RECURSIVE searchDown(_, _, _, _, _, _, _)

(* searchDown that also tries the next column before going down a row *)
searchDown_sideways(its, cx, y, maxY, w, h, excludeId) ==
  IF y > maxY THEN nullCell
  ELSE IF canFit(its, cx, y, w, h, excludeId) THEN [x |-> cx, y |-> y]
  ELSE IF canFit(its, cx + 1, y, w, h, excludeId)
       THEN [x |-> cx + 1, y |-> y]
  ELSE searchDown(its, cx, y + 1, maxY, w, h, excludeId)

searchDown(its, cx, y, maxY, w, h, excludeId) ==
  IF y > maxY THEN nullCell
  ELSE IF canFit(its, cx, y, w, h, excludeId) THEN [x |-> cx, y |-> y]
  ELSE searchDown(its, cx, y + 1, maxY, w, h, excludeId)

findNearestFreeCell(its, cx, cy, w, h, excludeId) ==
  LET maxY == getMaxRow(its) + h + 10
  IN  searchDown(its, cx, cy, maxY, w, h, excludeId)

----------------------------------------------------------------------------
(* Placement operations *)

(* addComponent that takes the asked place and moves what stood there *)
(* below the new item                                                 *)
addComponent_displaces(its, newItem) ==
  IF ~ canFit(<<>>, newItem.x, newItem.y, newItem.width, newItem.height,
              undefined)
  THEN null
  ELSE Append([k \in 1..Len(its) |->
                 IF overlaps(its[k], newItem)
                 THEN [its[k] EXCEPT !.y = newItem.y + newItem.height]
                 ELSE its[k]],
              newItem)

addComponent(its, newItem) ==
  LET pos == findNearestFreeCell(its, newItem.x, newItem.y,
                                 newItem.width, newItem.height, undefined)
  IN  IF pos = nullCell THEN null
      ELSE Append(its, [newItem EXCEPT !.x = pos.x, !.y = pos.y])

(* removeComponent by splice(findIndex(...), 1): index -1 of an absent id *)
(* takes the last item away                                              *)
removeComponent_splice(its, componentId) ==
  IF has(its, componentId) THEN without(its, componentId)
  ELSE SubSeq(its, 1, Len(its) - 1)

(* removeComponent followed by gravity: what stood below the removed item *)
(* floats up by its height                                                *)
removeComponent_gravity(its, componentId) ==
  IF ~ has(its, componentId) THEN its
  ELSE LET gone == find(its, componentId)
           rest == without(its, componentId)
       IN  [k \in 1..Len(rest) |->
              IF /\ rest[k].y >= gone.y + gone.height
                 /\ rest[k].x < gone.x + gone.width
                 /\ gone.x < rest[k].x + rest[k].width
              THEN [rest[k] EXCEPT !.y = rest[k].y - gone.height]
              ELSE rest[k]]

removeComponent(its, componentId) == without(its, componentId)

(* repositionComponent that appends the moved item to the whole list *)
repositionComponent_duplicates(its, componentId, newX, newY) ==
  IF ~ has(its, componentId) THEN null
  ELSE LET comp == find(its, componentId)
           others == without(its, componentId)
           pos == findNearestFreeCell(others, newX, newY,
                                      comp.width, comp.height, undefined)
       IN  IF pos = nullCell THEN null
           ELSE Append(its, [comp EXCEPT !.x = pos.x, !.y = pos.y])

(* repositionComponent that searches among all items, the moved one included *)
repositionComponent_selfObstacle(its, componentId, newX, newY) ==
  IF ~ has(its, componentId) THEN null
  ELSE LET comp == find(its, componentId)
           others == without(its, componentId)
           pos == findNearestFreeCell(its, newX, newY,
                                      comp.width, comp.height, undefined)
       IN  IF pos = nullCell THEN null
           ELSE Append(others, [comp EXCEPT !.x = pos.x, !.y = pos.y])

repositionComponent(its, componentId, newX, newY) ==
  IF ~ has(its, componentId) THEN null
  ELSE LET comp == find(its, componentId)
           others == without(its, componentId)
           pos == findNearestFreeCell(others, newX, newY,
                                      comp.width, comp.height, undefined)
       IN  IF pos = nullCell THEN null
           ELSE Append(others, [comp EXCEPT !.x = pos.x, !.y = pos.y])

----------------------------------------------------------------------------
(* Stable in-place sort of the working copy by x; dir = 1 is the comparator *)
(* (a, b) => a.x - b.x, dir = -1 is (a, b) => b.x - a.x.                    *)

RECURSIVE insertByX(_, _, _)
insertByX(sorted, e, dir) ==
  IF sorted = <<>> THEN <<e>>
  ELSE IF dir * (Head(sorted).x - e.x) <= 0
       THEN <<Head(sorted)>> \o insertByX(Tail(sorted), e, dir)
       ELSE <<e>> \o sorted

RECURSIVE sortByX(_, _)
sortByX(its, dir) ==
  IF its = <<>> THEN <<>>
  ELSE insertByX(sortByX(SubSeq(its, 1, Len(its) - 1), dir),
                 its[Len(its)], dir)

----------------------------------------------------------------------------
(* The objects and the arrays of a call.  An object is known by its      *)
(* address, its place in objs; an array is a list of addresses and is    *)
(* known by its place in arrs.  The list the caller passes is array 1;   *)
(* filter, map and spread make a new array, the last of arrs.  What a    *)
(* call does to the caller's list is read from array 1 when it returns.  *)

heapOf(its) == [objs |-> its, arrs |-> <<[k \in 1..Len(its) |-> k]>>]

(* The items of array r as they are now *)
listOf(heap, r) ==
  [k \in 1..Len(heap.arrs[r]) |-> heap.objs[heap.arrs[r][k]]]

(* arr.filter(i => i.componentId !== componentId): a new array of the *)
(* same objects                                                       *)
filterOut(heap, r, componentId) ==
  LET keep(a) == heap.objs[a].componentId # componentId
  IN  [heap EXCEPT !.arrs = Append(@, SelectSeq(heap.arrs[r], keep))]

(* A map that hands each object on: a new array of the same objects *)
mapCopy_shared(heap, r) == [heap EXCEPT !.arrs = Append(@, heap.arrs[r])]

(* arr.map(i => ({ ...i })): a new array of new objects *)
mapCopy(heap, r) ==
  [objs |-> heap.objs \o listOf(heap, r),
   arrs |-> Append(heap.arrs,
                   [k \in 1..Len(heap.arrs[r]) |-> Len(heap.objs) + k])]

(* [...arr, { ...item }]: a new array of the objects of arr and of one *)
(* new object                                                          *)
spreadAppend(heap, r, item) ==
  [objs |-> Append(heap.objs, item),
   arrs |-> Append(heap.arrs, Append(heap.arrs[r], Len(heap.objs) + 1))]

(* The items of array r, each with the address of its object: what a *)
(* loop over the array sorts and writes to                           *)
tagged(heap, r) ==
  [k \in 1..Len(heap.arrs[r]) |->
     LET o == heap.objs[heap.arrs[r][k]]
     IN  [componentId |-> o.componentId, componentType |-> o.componentType,
          x |-> o.x, y |-> o.y, width |-> o.width, height |-> o.height,
          address |-> heap.arrs[r][k]]]

(* The heap when a loop has sorted array r in place and written to its *)
(* objects; result is the array as the loop leaves it                  *)
written(heap, r, result) ==
  LET at(a) == CHOOSE k \in 1..Len(result) : result[k].address = a
      now(a) == GridItem(result[at(a)].componentId,
                         result[at(a)].componentType,
                         result[at(a)].x, result[at(a)].y,
                         result[at(a)].width, result[at(a)].height)
  IN  [objs |-> [a \in 1..Len(heap.objs) |->
                   IF \E k \in 1..Len(result) : result[k].address = a
                   THEN now(a) ELSE heap.objs[a]],
       arrs |-> [heap.arrs EXCEPT
                   ![r] = [k \in 1..Len(result) |-> result[k].address]]]

(* The list passed to addComponent, as it is when the call has returned *)
addComponentInput(its, newItem) ==
  LET pos == findNearestFreeCell(its, newItem.x, newItem.y,
                                 newItem.width, newItem.height, undefined)
  IN  IF pos = nullCell THEN listOf(heapOf(its), 1)
      ELSE listOf(spreadAppend(heapOf(its), 1,
                               [newItem EXCEPT !.x = pos.x, !.y = pos.y]), 1)

(* The list passed to removeComponent, as it is when the call has returned *)
removeComponentInput(its, componentId) ==
  listOf(filterOut(heapOf(its), 1, componentId), 1)

(* The list passed to repositionComponent, as it is when the call has *)
(* returned                                                           *)
repositionComponentInput(its, componentId, newX, newY) ==
  IF ~ has(its, componentId) THEN listOf(heapOf(its), 1)
  ELSE LET comp == find(its, componentId)
           others == filterOut(heapOf(its), 1, componentId)
           pos == findNearestFreeCell(listOf(others, 2), newX, newY,
                                      comp.width, comp.height, undefined)
       IN  IF pos = nullCell THEN listOf(others, 1)
           ELSE listOf(spreadAppend(others, 2,
                                    [comp EXCEPT !.x = pos.x, !.y = pos.y]),
                       1)

----------------------------------------------------------------------------
(* Resize, left edge: leftward cascade to a fixed point *)

RECURSIVE leftCascadeOthers(_, _, _, _)
leftCascadeOthers(result, i, j, changed) ==
  IF j > Len(result) THEN [result |-> result, changed |-> changed]
  ELSE LET item == result[i]
           other == result[j]
       IN  IF other.componentId = item.componentId
           THEN leftCascadeOthers(result, i, j + 1, changed)
           ELSE IF /\ vOverlaps(item, other)
                   /\ item.x < other.x + other.width
                   /\ other.x < item.x + item.width
                THEN LET newOtherX == Min(other.x, item.x - other.width)
                     IN  IF newOtherX # other.x
                         THEN leftCascadeOthers(
                                [result EXCEPT ![j].x = newOtherX],
                                i, j + 1, TRUE)
                         ELSE leftCascadeOthers(result, i, j + 1, changed)
                ELSE leftCascadeOthers(result, i, j + 1, changed)

RECURSIVE leftCascadePass(_, _, _, _)
leftCascadePass(result, resized, i, changed) ==
  IF i > Len(result) THEN [result |-> result, changed |-> changed]
  ELSE LET item == result[i]
           hit == /\ vOverlaps(resized, item)
                  /\ resized.x < item.x + item.width
                  /\ item.x < resized.x + resized.width
           newItemX == resized.x - item.width
           moved == hit /\ newItemX # item.x
           r1 == IF moved THEN [result EXCEPT ![i].x = newItemX] ELSE result
           c1 == changed \/ moved
           inner == leftCascadeOthers(r1, i, 1, c1)
       IN  leftCascadePass(inner.result, resized, i + 1, inner.changed)

RECURSIVE leftCascade(_, _, _)
leftCascade(result, resized, passes) ==
  LET p == leftCascadePass(sortByX(result, -1), resized, 1, FALSE)
  IN  IF p.changed THEN leftCascade(p.result, resized, passes + 1)
      ELSE [result |-> p.result, passes |-> passes + 1]

(* resizeLeftEdge that moves the left edge but keeps the old width *)
resizeLeftEdgeOutcome_keepsWidth(its, componentId, newX) ==
  IF ~ has(its, componentId) THEN [layout |-> its, path |-> "absent"]
  ELSE
    LET comp == find(its, componentId)
        clampedX == Max(0, Min(newX, comp.x + comp.width - 1))
        newWidth == comp.x + comp.width - clampedX
        others == without(its, componentId)
        resized == [comp EXCEPT !.x = clampedX]
    IN  IF canFit(others, clampedX, comp.y, newWidth, comp.height, undefined)
        THEN [layout |-> Append(others, resized), path |-> "direct"]
        ELSE LET result == leftCascade(others, resized, 0).result
             IN  IF \E k \in 1..Len(result) : result[k].x < 0
                 THEN [layout |-> its, path |-> "rejected"]
                 ELSE [layout |-> Append(result, resized), path |-> "pushed"]

(* resizeLeftEdge that also refuses when an item lands on column 0 *)
resizeLeftEdgeOutcome_offByOne(its, componentId, newX) ==
  IF ~ has(its, componentId) THEN [layout |-> its, path |-> "absent"]
  ELSE
    LET comp == find(its, componentId)
        clampedX == Max(0, Min(newX, comp.x + comp.width - 1))
        newWidth == comp.x + comp.width - clampedX
        others == without(its, componentId)
        resized == [comp EXCEPT !.x = clampedX, !.width = newWidth]
    IN  IF canFit(others, clampedX, comp.y, newWidth, comp.height, undefined)
        THEN [layout |-> Append(others, resized), path |-> "direct"]
        ELSE LET result == leftCascade(others, resized, 0).result
             IN  IF \E k \in 1..Len(result) : result[k].x <= 0
                 THEN [layout |-> its, path |-> "rejected"]
                 ELSE [layout |-> Append(result, resized), path |-> "pushed"]

resizeLeftEdgeOutcome(its, componentId, newX) ==
  IF ~ has(its, componentId) THEN [layout |-> its, path |-> "absent"]
  ELSE
    LET comp == find(its, componentId)
        clampedX == Max(0, Min(newX, comp.x + comp.width - 1))
        newWidth == comp.x + comp.width - clampedX
        others == without(its, componentId)
        resized == [comp EXCEPT !.x = clampedX, !.width = newWidth]
    IN  IF canFit(others, clampedX, comp.y, newWidth, comp.height, undefined)
        THEN [layout |-> Append(others, resized), path |-> "direct"]
        ELSE LET result == leftCascade(others, resized, 0).result
             IN  IF \E k \in 1..Len(result) : result[k].x < 0
                 THEN [layout |-> its, path |-> "rejected"]
                 ELSE [layout |-> Append(result, resized), path |-> "pushed"]

resizeLeftEdge(its, componentId, newX) ==
  resizeLeftEdgeOutcome(its, componentId, newX).layout

(* The list passed to resizeLeftEdge, as it is when the call has returned *)
resizeLeftEdgeInput(its, componentId, newX) ==
  IF ~ has(its, componentId) THEN listOf(heapOf(its), 1)
  ELSE
    LET comp == find(its, componentId)
        clampedX == Max(0, Min(newX, comp.x + comp.width - 1))
        newWidth == comp.x + comp.width - clampedX
        others == filterOut(heapOf(its), 1, componentId)
        resized == [comp EXCEPT !.x = clampedX, !.width = newWidth]
    IN  IF canFit(listOf(others, 2), clampedX, comp.y, newWidth, comp.height,
                  undefined)
        THEN listOf(spreadAppend(others, 2, resized), 1)
        ELSE LET result == mapCopy(others, 2)
                 settled == written(result, 3,
                                    leftCascade(tagged(result, 3),
                                                resized, 0).result)
             IN  IF \E k \in 1..Len(listOf(settled, 3)) :
                      listOf(settled, 3)[k].x < 0
                 THEN listOf(settled, 1)
                 ELSE listOf(spreadAppend(settled, 3, resized), 1)

----------------------------------------------------------------------------
(* Resize, right edge: rightward cascade to a fixed point *)

RECURSIVE widthCascadeOthers(_, _, _, _)
widthCascadeOthers(result, i, j, changed) ==
  IF j > Len(result) THEN [result |-> result, changed |-> changed]
  ELSE LET item == result[i]
           other == result[j]
       IN  IF other.componentId = item.componentId
           THEN widthCascadeOthers(result, i, j + 1, changed)
           ELSE IF /\ vOverlaps(item, other)
                   /\ item.x + item.width > other.x
                   /\ other.x + other.width > item.x
                   /\ other.x < item.x + item.width
                THEN LET newX == Max(other.x, item.x + item.width)
                     IN  IF newX # other.x
                         THEN widthCascadeOthers(
                                [result EXCEPT ![j].x = newX],
                                i, j + 1, TRUE)
                         ELSE widthCascadeOthers(result, i, j + 1, changed)
                ELSE widthCascadeOthers(result, i, j + 1, changed)

RECURSIVE widthCascadePass(_, _, _, _)

(* A pass that pushes whatever stands in the columns of the resized item, *)
(* in its rows or not                                                    *)
widthCascadePass_anyRow(result, resized, i, changed) ==
  IF i > Len(result) THEN [result |-> result, changed |-> changed]
  ELSE LET item == result[i]
           hit == /\ resized.x + resized.width > item.x
                  /\ item.x + item.width > resized.x
           newX == resized.x + resized.width
           moved == hit /\ newX # item.x
           r1 == IF moved THEN [result EXCEPT ![i].x = newX] ELSE result
           c1 == changed \/ moved
           inner == widthCascadeOthers(r1, i, 1, c1)
       IN  widthCascadePass(inner.result, resized, i + 1, inner.changed)

widthCascadePass(result, resized, i, changed) ==
  IF i > Len(result) THEN [result |-> result, changed |-> changed]
  ELSE LET item == result[i]
           hit == /\ vOverlaps(resized, item)
                  /\ resized.x + resized.width > item.x
                  /\ item.x + item.width > resized.x
           newX == resized.x + resized.width
           moved == hit /\ newX # item.x
           r1 == IF moved THEN [result EXCEPT ![i].x = newX] ELSE result
           c1 == changed \/ moved
           inner == widthCascadeOthers(r1, i, 1, c1)
       IN  widthCascadePass(inner.result, resized, i + 1, inner.changed)

RECURSIVE widthCascade(_, _, _)
widthCascade(result, resized, passes) ==
  LET p == widthCascadePass(sortByX(result, 1), resized, 1, FALSE)
  IN  IF p.changed THEN widthCascade(p.result, resized, passes + 1)
      ELSE [result |-> p.result, passes |-> passes + 1]

(* resizeWidth that hands back the pushed working copy when it refuses *)
resizeWidthOutcome_leaks(its, componentId, newWidth) ==
  IF ~ has(its, componentId) THEN [layout |-> its, path |-> "absent"]
  ELSE
    LET comp == find(its, componentId)
        clamped == Max(1, Min(newWidth, GRID_COLUMNS))
        others == without(its, componentId)
        resized == [comp EXCEPT !.width = clamped]
    IN  IF canFit(others, comp.x, comp.y, clamped, comp.height, undefined)
        THEN [layout |-> Append(others, resized), path |-> "direct"]
        ELSE LET result == widthCascade(others, resized, 0).result
             IN  IF \E k \in 1..Len(result) :
                        result[k].x + result[k].width > GRID_COLUMNS
                 THEN [layout |-> Append(result, comp), path |-> "rejected"]
                 ELSE [layout |-> Append(result, resized), path |-> "pushed"]

(* resizeWidth that wraps what it pushed past the last column to a new row *)
(* instead of refusing                                                    *)
resizeWidthOutcome_wraps(its, componentId, newWidth) ==
  IF ~ has(its, componentId) THEN [layout |-> its, path |-> "absent"]
  ELSE
    LET comp == find(its, componentId)
        clamped == Max(1, Min(newWidth, GRID_COLUMNS))
        others == without(its, componentId)
        resized == [comp EXCEPT !.width = clamped]
    IN  IF canFit(others, comp.x, comp.y, clamped, comp.height, undefined)
        THEN [layout |-> Append(others, resized), path |-> "direct"]
        ELSE LET result == widthCascade(others, resized, 0).result
                 wrapped ==
                   [k \in 1..Len(result) |->
                      IF result[k].x + result[k].width > GRID_COLUMNS
                      THEN [result[k] EXCEPT !.x = 0, !.y = getMaxRow(its)]
                      ELSE result[k]]
             IN  [layout |-> Append(wrapped, resized), path |-> "pushed"]

(* resizeWidth that, when the item shrinks, pulls the items right of it *)
(* in its rows back by the columns it gave up                          *)
resizeWidthOutcome_pullsBack(its, componentId, newWidth) ==
  IF ~ has(its, componentId) THEN [layout |-> its, path |-> "absent"]
  ELSE
    LET comp == find(its, componentId)
        clamped == Max(1, Min(newWidth, GRID_COLUMNS))
        others == without(its, componentId)
        resized == [comp EXCEPT !.width = clamped]
        pulled ==
          [k \in 1..Len(others) |->
             IF /\ clamped < comp.width
                /\ vOverlaps(comp, others[k])
                /\ others[k].x >= comp.x + comp.width
             THEN [others[k] EXCEPT !.x = @ - (comp.width - clamped)]
             ELSE others[k]]
    IN  IF canFit(others, comp.x, comp.y, clamped, comp.height, undefined)
        THEN [layout |-> Append(pulled, resized), path |-> "direct"]
        ELSE LET result == widthCascade(others, resized, 0).result
             IN  IF \E k \in 1..Len(result) :
                        result[k].x + result[k].width > GRID_COLUMNS
                 THEN [layout |-> its, path |-> "rejected"]
                 ELSE [layout |-> Append(result, resized), path |-> "pushed"]

resizeWidthOutcome(its, componentId, newWidth) ==
  IF ~ has(its, componentId) THEN [layout |-> its, path |-> "absent"]
  ELSE
    LET comp == find(its, componentId)
        clamped == Max(1, Min(newWidth, GRID_COLUMNS))
        others == without(its, componentId)
        resized == [comp EXCEPT !.width = clamped]
    IN  IF canFit(others, comp.x, comp.y, clamped, comp.height, undefined)
        THEN [layout |-> Append(others, resized), path |-> "direct"]
        ELSE LET result == widthCascade(others, resized, 0).result
             IN  IF \E k \in 1..Len(result) :
                        result[k].x + result[k].width > GRID_COLUMNS
                 THEN [layout |-> its, path |-> "rejected"]
                 ELSE [layout |-> Append(result, resized), path |-> "pushed"]

resizeWidth(its, componentId, newWidth) ==
  resizeWidthOutcome(its, componentId, newWidth).layout

(* The list passed to resizeWidth, as it is when the call has returned *)
resizeWidthInput(its, componentId, newWidth) ==
  IF ~ has(its, componentId) THEN listOf(heapOf(its), 1)
  ELSE
    LET comp == find(its, componentId)
        clamped == Max(1, Min(newWidth, GRID_COLUMNS))
        others == filterOut(heapOf(its), 1, componentId)
        resized == [comp EXCEPT !.width = clamped]
    IN  IF canFit(listOf(others, 2), comp.x, comp.y, clamped, comp.height,
                  undefined)
        THEN listOf(spreadAppend(others, 2, resized), 1)
        ELSE LET result == mapCopy(others, 2)
                 settled == written(result, 3,
                                    widthCascade(tagged(result, 3),
                                                 resized, 0).result)
             IN  IF \E k \in 1..Len(listOf(settled, 3)) :
                      listOf(settled, 3)[k].x + listOf(settled, 3)[k].width
                        > GRID_COLUMNS
                 THEN listOf(settled, 1)
                 ELSE listOf(spreadAppend(settled, 3, resized), 1)

----------------------------------------------------------------------------
(* Resize, bottom edge: recursive downward push, each id moved at most once *)

RECURSIVE pushDown(_, _, _, _, _)
RECURSIVE pushDownFrom(_, _, _, _, _, _)

pushDown(st, srcX, srcWidth, oldBottom, newBottom) ==
  IF newBottom - oldBottom <= 0 THEN st
  ELSE pushDownFrom(st, 1, srcX, srcWidth, oldBottom, newBottom)

(* A push that shifts an item below the old bottom by the rows of the new *)
(* bottom instead of the rows the bottom moved by                        *)
pushDownFrom_byNewBottom(st, k, srcX, srcWidth, oldBottom, newBottom) ==
  IF k > Len(st.result) THEN st
  ELSE
    LET item == st.result[k]
        hOverlap == srcX < item.x + item.width /\ item.x < srcX + srcWidth
        prevBottom == item.y + item.height
        moveTo(newY) ==
          pushDown([result |-> [st.result EXCEPT ![k].y = newY],
                    pushed |-> st.pushed \cup {item.componentId}],
                   item.x, item.width, prevBottom, newY + item.height)
        st1 == IF item.componentId \in st.pushed THEN st
               ELSE IF ~ hOverlap THEN st
               ELSE IF item.y >= oldBottom /\ item.y < newBottom
                    THEN moveTo(newBottom)
               ELSE IF item.y >= oldBottom
                    THEN moveTo(item.y + newBottom)
               ELSE IF item.y < newBottom /\ item.y + item.height > oldBottom
                    THEN moveTo(newBottom)
               ELSE st
    IN  pushDownFrom(st1, k + 1, srcX, srcWidth, oldBottom, newBottom)

pushDownFrom(st, k, srcX, srcWidth, oldBottom, newBottom) ==
  IF k > Len(st.result) THEN st
  ELSE
    LET item == st.result[k]
        delta == newBottom - oldBottom
        hOverlap == srcX < item.x + item.width /\ item.x < srcX + srcWidth
        prevBottom == item.y + item.height
        moveTo(newY) ==
          pushDown([result |-> [st.result EXCEPT ![k].y = newY],
                    pushed |-> st.pushed \cup {item.componentId}],
                   item.x, item.width, prevBottom, newY + item.height)
        st1 == IF item.componentId \in st.pushed THEN st
               ELSE IF ~ hOverlap THEN st
               ELSE IF item.y >= oldBottom /\ item.y < newBottom
                    THEN moveTo(newBottom)
               ELSE IF item.y >= oldBottom
                    THEN moveTo(item.y + delta)
               ELSE IF item.y < newBottom /\ item.y + item.height > oldBottom
                    THEN moveTo(newBottom)
               ELSE st
    IN  pushDownFrom(st1, k + 1, srcX, srcWidth, oldBottom, newBottom)

(* resizeHeight that refuses a growth that collides, as the widths do *)
resizeHeightOutcome_refuses(its, componentId, newHeight) ==
  IF ~ has(its, componentId) THEN [layout |-> its, path |-> "absent"]
  ELSE
    LET comp == find(its, componentId)
        clamped == Max(1, Min(newHeight, MAX_COMPONENT_HEIGHT))
        others == without(its, componentId)
        resized == [comp EXCEPT !.height = clamped]
    IN  IF canFit(others, comp.x, comp.y, comp.width, clamped, undefined)
        THEN [layout |-> Append(others, resized), path |-> "direct"]
        ELSE IF clamped <= comp.height
        THEN [layout |-> Append(others, resized), path |-> "shrink"]
        ELSE [layout |-> its, path |-> "pushed"]

(* resizeHeight without the lower clamp: Math.min(newHeight, MAX) alone *)
resizeHeightOutcome_noLowerClamp(its, componentId, newHeight) ==
  IF ~ has(its, componentId) THEN [layout |-> its, path |-> "absent"]
  ELSE
    LET comp == find(its, componentId)
        clamped == Min(newHeight, MAX_COMPONENT_HEIGHT)
        others == without(its, componentId)
        resized == [comp EXCEPT !.height = clamped]
    IN  IF canFit(others, comp.x, comp.y, comp.width, clamped, undefined)
        THEN [layout |-> Append(others, resized), path |-> "direct"]
        ELSE IF clamped <= comp.height
        THEN [layout |-> Append(others, resized), path |-> "shrink"]
        ELSE LET st == pushDown([result |-> others, pushed |-> {}],
                                comp.x, comp.width,
                                comp.y + comp.height, comp.y + clamped)
             IN  [layout |-> Append(st.result, resized), path |-> "pushed"]

(* resizeHeight that takes an id it does not find for a new item *)
resizeHeightOutcome_createsAbsent(its, componentId, newHeight) ==
  IF ~ has(its, componentId)
  THEN [layout |-> Append(its, GridItem(componentId, "KPI", 0, getMaxRow(its),
                                        1, Max(1, Min(newHeight,
                                                      MAX_COMPONENT_HEIGHT)))),
        path |-> "absent"]
  ELSE
    LET comp == find(its, componentId)
        clamped == Max(1, Min(newHeight, MAX_COMPONENT_HEIGHT))
        others == without(its, componentId)
        resized == [comp EXCEPT !.height = clamped]
    IN  IF canFit(others, comp.x, comp.y, comp.width, clamped, undefined)
        THEN [layout |-> Append(others, resized), path |-> "direct"]
        ELSE IF clamped <= comp.height
        THEN [layout |-> Append(others, resized), path |-> "shrink"]
        ELSE LET st == pushDown([result |-> others, pushed |-> {}],
                                comp.x, comp.width,
                                comp.y + comp.height, comp.y + clamped)
             IN  [layout |-> Append(st.result, resized), path |-> "pushed"]

resizeHeightOutcome(its, componentId, newHeight) ==
  IF ~ has(its, componentId) THEN [layout |-> its, path |-> "absent"]
  ELSE
    LET comp == find(its, componentId)
        clamped == Max(1, Min(newHeight, MAX_COMPONENT_HEIGHT))
        others == without(its, componentId)
        resized == [comp EXCEPT !.height = clamped]
    IN  IF canFit(others, comp.x, comp.y, comp.width, clamped, undefined)
        THEN [layout |-> Append(others, resized), path |-> "direct"]
        ELSE IF clamped <= comp.height
        THEN [layout |-> Append(others, resized), path |-> "shrink"]
        ELSE LET st == pushDown([result |-> others, pushed |-> {}],
                                comp.x, comp.width,
                                comp.y + comp.height, comp.y + clamped)
             IN  [layout |-> Append(st.result, resized), path |-> "pushed"]

resizeHeight(its, componentId, newHeight) ==
  resizeHeightOutcome(its, componentId, newHeight).layout

(* The list passed to resizeHeight, as it is when the call has returned *)
resizeHeightInput(its, componentId, newHeight) ==
  IF ~ has(its, componentId) THEN listOf(heapOf(its), 1)
  ELSE
    LET comp == find(its, componentId)
        clamped == Max(1, Min(newHeight, MAX_COMPONENT_HEIGHT))
        others == filterOut(heapOf(its), 1, componentId)
        resized == [comp EXCEPT !.height = clamped]
    IN  IF canFit(listOf(others, 2), comp.x, comp.y, comp.width, clamped,
                  undefined)
        THEN listOf(spreadAppend(others, 2, resized), 1)
        ELSE IF clamped <= comp.height
        THEN listOf(spreadAppend(others, 2, resized), 1)
        ELSE LET result == mapCopy(others, 2)
                 settled ==
                   written(result, 3,
                           pushDown([result |-> tagged(result, 3),
                                     pushed |-> {}],
                                    comp.x, comp.width, comp.y + comp.height,
                                    comp.y + clamped).result)
             IN  listOf(spreadAppend(settled, 3, resized), 1)

----------------------------------------------------------------------------
(* Validator *)

RECURSIVE overlapViolations(_, _, _)

(* The pair loop with a closed-interval test: touching items are reported *)
overlapViolations_closed(its, i, j) ==
  IF i > Len(its) THEN <<>>
  ELSE IF j > Len(its) THEN overlapViolations(its, i + 1, i + 2)
  ELSE LET a == its[i]
           b == its[j]
           rest == overlapViolations(its, i, j + 1)
       IN  IF /\ a.x <= b.x + b.width
              /\ b.x <= a.x + a.width
              /\ a.y <= b.y + b.height
              /\ b.y <= a.y + a.height
           THEN <<[type |-> "overlap",
                   message |-> "Overlap: " \o a.componentId \o " and "
                                 \o b.componentId,
                   components |-> <<a.componentId, b.componentId>>]>> \o rest
           ELSE rest

overlapViolations(its, i, j) ==
  IF i > Len(its) THEN <<>>
  ELSE IF j > Len(its) THEN overlapViolations(its, i + 1, i + 2)
  ELSE LET a == its[i]
           b == its[j]
           rest == overlapViolations(its, i, j + 1)
       IN  IF /\ a.x < b.x + b.width
              /\ b.x < a.x + a.width
              /\ a.y < b.y + b.height
              /\ b.y < a.y + a.height
           THEN <<[type |-> "overlap",
                   message |-> "Overlap: " \o a.componentId \o " and "
                                 \o b.componentId,
                   components |-> <<a.componentId, b.componentId>>]>> \o rest
           ELSE rest

RECURSIVE itemViolations(_, _)

(* The item loop without the upper bound on the height *)
itemViolations_noMaxHeight(its, k) ==
  IF k > Len(its) THEN <<>>
  ELSE LET item == its[k]
           oob == IF item.x + item.width > GRID_COLUMNS
                  THEN <<[type |-> "out_of_bounds",
                          message |-> "Out of bounds: " \o item.componentId,
                          components |-> <<item.componentId>>]>>
                  ELSE <<>>
           dim == IF \/ item.x < 0 \/ item.y < 0 \/ item.width < 1
                     \/ item.height < 1
                  THEN <<[type |-> "invalid_dimensions",
                          message |-> "Invalid dimensions: "
                                        \o item.componentId,
                          components |-> <<item.componentId>>]>>
                  ELSE <<>>
       IN  oob \o dim \o itemViolations(its, k + 1)

itemViolations(its, k) ==
  IF k > Len(its) THEN <<>>
  ELSE LET item == its[k]
           oob == IF item.x + item.width > GRID_COLUMNS
                  THEN <<[type |-> "out_of_bounds",
                          message |-> "Out of bounds: " \o item.componentId,
                          components |-> <<item.componentId>>]>>
                  ELSE <<>>
           dim == IF \/ item.x < 0 \/ item.y < 0 \/ item.width < 1
                     \/ item.height < 1
                     \/ item.height > MAX_COMPONENT_HEIGHT
                  THEN <<[type |-> "invalid_dimensions",
                          message |-> "Invalid dimensions: "
                                        \o item.componentId,
                          components |-> <<item.componentId>>]>>
                  ELSE <<>>
       IN  oob \o dim \o itemViolations(its, k + 1)

validateLayout(its) == overlapViolations(its, 1, 2) \o itemViolations(its, 1)

----------------------------------------------------------------------------
(* The gravity engine: solveLayout, its pushDown, gravityCompact and the  *)
(* loop of stabilize, which builds the initial layout of the application. *)
(* The lists are sequences of items; where the code holds a reference to  *)
(* an object of a list, the operators hold its index in the list.         *)

RECURSIVE sortedSeq(_)
(* [...set].sort((a, b) => a - b) *)
sortedSeq(S) ==
  IF S = {} THEN <<>>
  ELSE LET m == CHOOSE a \in S : \A b \in S : a <= b
       IN  <<m>> \o sortedSeq(S \ {m})

getOccupiedYs(its) ==
  sortedSeq(UNION {its[k].y .. (its[k].y + its[k].height - 1) :
                     k \in 1..Len(its)})

(* The indexes of the items that cover row y, in the order of the list *)
componentsAtY(its, y) ==
  LET covers(k) == its[k].y <= y /\ y < its[k].y + its[k].height
  IN  SelectSeq([k \in 1..Len(its) |-> k], covers)

(* Of a list of indexes, those whose id no earlier index of the list has *)
uniqueById(its, idx) ==
  LET first(q) == \A e \in 1..(q - 1) :
                    its[idx[e]].componentId # its[idx[q]].componentId
      kept == SelectSeq([q \in 1..Len(idx) |-> q], first)
  IN  [p \in 1..Len(kept) |-> idx[kept[p]]]

(* result.find(r => r.componentId === comp.componentId): the index of the *)
(* first item with the id of item k                                       *)
ref(its, k) ==
  CHOOSE j \in 1..Len(its) :
    /\ its[j].componentId = its[k].componentId
    /\ \A e \in 1..(j - 1) : its[e].componentId # its[k].componentId

(* The comparators of the sorts, on the items of indexes a and b *)
compare(kind, its, a, b, resizedId) ==
  CASE kind = "row" ->
         IF its[a].x # its[b].x THEN its[a].x - its[b].x
         ELSE IF its[a].componentId = resizedId THEN -1
         ELSE IF its[b].componentId = resizedId THEN 1
         ELSE 0
    [] kind = "priority" ->
         IF its[a].y # its[b].y THEN its[a].y - its[b].y
         ELSE IF its[a].x # its[b].x THEN its[a].x - its[b].x
         ELSE IF its[a].componentId = resizedId THEN -1
         ELSE IF its[b].componentId = resizedId THEN 1
         ELSE (IF its[a].height > 1 THEN 0 ELSE 1)
                - (IF its[b].height > 1 THEN 0 ELSE 1)
    [] kind = "x" -> its[a].x - its[b].x
    [] kind = "y" -> its[a].y - its[b].y

RECURSIVE insertBy(_, _, _, _, _)
insertBy(kind, its, sorted, e, resizedId) ==
  IF sorted = <<>> THEN <<e>>
  ELSE IF compare(kind, its, Head(sorted), e, resizedId) <= 0
       THEN <<Head(sorted)>>
              \o insertBy(kind, its, Tail(sorted), e, resizedId)
       ELSE <<e>> \o sorted

RECURSIVE sortBy(_, _, _, _)
(* Array.prototype.sort, which is stable, on a list of indexes *)
sortBy(kind, its, idx, resizedId) ==
  IF idx = <<>> THEN <<>>
  ELSE insertBy(kind, its,
                sortBy(kind, its, SubSeq(idx, 1, Len(idx) - 1), resizedId),
                idx[Len(idx)], resizedId)

rowSort(its, idx, resizedId) == sortBy("row", its, idx, resizedId)

RECURSIVE sumOver(_, _, _, _)
(* reduce: the sum of width - less over the items of a list of indexes *)
sumOver(its, idx, pos, less) ==
  IF pos > Len(idx) THEN 0
  ELSE its[idx[pos]].width - less + sumOver(its, idx, pos + 1, less)

RECURSIVE mopUp(_, _, _, _)
(* Step 1, the rounding remainder, taken from the components in order *)
mopUp(result, order, pos, remaining) ==
  IF pos > Len(order) \/ remaining <= 0 THEN result
  ELSE LET r == ref(result, order[pos])
           shrink == Min(result[r].width - 1, remaining)
       IN  mopUp([result EXCEPT ![r].width = @ - shrink],
                 order, pos + 1, remaining - shrink)

RECURSIVE shrinkShares(_, _, _, _, _, _, _)
(* Step 1, the proportional shrink of the components of one row; what *)
(* is left of the excess after the last of them goes to mopUp         *)
shrinkShares(result, sorted, order, pos, excess, totalShrinkable, remaining) ==
  IF pos > Len(sorted) THEN mopUp(result, order, 1, remaining)
  ELSE LET r == ref(result, sorted[pos])
           shrinkable == result[r].width - 1
           share == Min(shrinkable,
                        round(excess * shrinkable, totalShrinkable))
           cut == Min(share, remaining)
       IN  shrinkShares([result EXCEPT ![r].width = @ - cut],
                        sorted, order, pos + 1, excess, totalShrinkable,
                        remaining - cut)

(* Step 1 for a row whose components are sorted *)
shrinkSorted(result, sorted, resizedId) ==
  LET totalWidth == sumOver(result, sorted, 1, 0)
      excess == totalWidth - GRID_COLUMNS
      totalShrinkable ==
        sumOver(result, [p \in 1..Len(sorted) |-> ref(result, sorted[p])],
                1, 1)
      notResized(k) == result[k].componentId # resizedId
      isResized(k) == result[k].componentId = resizedId
  IN  IF totalWidth <= GRID_COLUMNS \/ totalShrinkable <= 0 THEN result
      ELSE shrinkShares(result, sorted,
                        SelectSeq(sorted, notResized)
                          \o SelectSeq(sorted, isResized),
                        1, excess, totalShrinkable, excess)

(* Step 1 for the row y *)
shrinkRow(result, y, resizedId) ==
  shrinkSorted(result,
               rowSort(result, uniqueById(result, componentsAtY(result, y)),
                       resizedId),
               resizedId)

RECURSIVE shrinkRows(_, _, _, _)
(* Step 1: every occupied row, from the top.  The length of result is *)
(* taken so that a row is evaluated before the next row is entered.   *)
shrinkRows(result, ys, pos, resizedId) ==
  IF pos > Len(ys) \/ Len(result) = 0 THEN result
  ELSE shrinkRows(shrinkRow(result, ys[pos], resizedId), ys, pos + 1,
                  resizedId)

(* One entry of the occupied map: the columns [start, end) taken in a row *)
Occupied(row, start, end) == [row |-> row, start |-> start, end |-> end]

RECURSIVE pushOccupied(_, _)
(* occupied.get(r).push(entry) and the sort by start of the row's list: *)
(* the list occ holds the entries of each row in the order of its list  *)
pushOccupied(occ, entry) ==
  IF occ = <<>> THEN <<entry>>
  ELSE IF Head(occ).row = entry.row /\ Head(occ).start > entry.start
       THEN <<entry>> \o occ
       ELSE <<Head(occ)>> \o pushOccupied(Tail(occ), entry)

RECURSIVE pushOccupiedRows(_, _, _)
pushOccupiedRows(occ, item, r) ==
  IF r >= item.y + item.height THEN occ
  ELSE pushOccupiedRows(
         pushOccupied(occ, Occupied(r, item.x, item.x + item.width)),
         item, r + 1)

RECURSIVE blockedAt(_, _, _, _)
(* The loops over the rows of item and over the entries of a row: the *)
(* first entry that tryX runs into, or none                           *)
blockedAt(occ, item, tryX, r) ==
  IF r >= item.y + item.height THEN [fits |-> TRUE, tryX |-> tryX]
  ELSE LET hits(e) == /\ e.row = r
                      /\ tryX < e.end
                      /\ tryX + item.width > e.start
           rowOcc == SelectSeq(occ, hits)
       IN  IF rowOcc # <<>>
           THEN [fits |-> FALSE, tryX |-> Max(tryX, Head(rowOcc).end - 1)]
           ELSE blockedAt(occ, item, tryX, r + 1)

RECURSIVE findBestX(_, _, _)
(* The leftmost x where item fits in all its rows, -1 when there is none *)
findBestX(occ, item, tryX) ==
  IF tryX > GRID_COLUMNS - item.width THEN -1
  ELSE LET b == blockedAt(occ, item, tryX, item.y)
       IN  IF b.fits THEN tryX ELSE findBestX(occ, item, b.tryX + 1)

RECURSIVE packLeft(_, _, _, _, _)

(* Step 2 for the component of index r, which goes to column bestX *)
placeAt(result, byPriority, pos, placed, occ, r, bestX) ==
  packLeft([result EXCEPT ![r].x = bestX], byPriority, pos + 1,
           placed \cup {result[r].componentId},
           pushOccupiedRows(occ, [result[r] EXCEPT !.x = bestX],
                            result[r].y))

(* Step 2: the components, in the order byPriority, packed to the left *)
packLeft(result, byPriority, pos, placed, occ) ==
  IF pos > Len(byPriority) THEN result
  ELSE IF result[byPriority[pos]].componentId \in placed
       THEN packLeft(result, byPriority, pos + 1, placed, occ)
       ELSE LET r == ref(result, byPriority[pos])
            IN  placeAt(result, byPriority, pos, placed, occ, r,
                        Max(0, findBestX(occ, result[r], 0)))

(* Step 2 of solveLayout, made once Step 1 is *)
packRows(shrunk, resizedId) ==
  IF Len(shrunk) = 0 THEN shrunk
  ELSE packLeft(shrunk,
                sortBy("priority", shrunk, [k \in 1..Len(shrunk) |-> k],
                       resizedId),
                1, {}, <<>>)

RECURSIVE buildGaps(_, _, _, _)
(* The free columns around the fixed components of a row *)
buildGaps(result, fixed, pos, cursor) ==
  IF pos > Len(fixed)
  THEN IF cursor < GRID_COLUMNS
       THEN <<[start |-> cursor, end |-> GRID_COLUMNS]>>
       ELSE <<>>
  ELSE LET fr == result[fixed[pos]]
       IN  (IF fr.x > cursor
            THEN <<[start |-> cursor, end |-> fr.x]>> ELSE <<>>)
           \o buildGaps(result, fixed, pos + 1,
                        Max(cursor, fr.x + fr.width))

RECURSIVE fillGaps(_, _, _, _, _, _)
(* The movable components placed into the gaps, gap after gap; x is the *)
(* next free column of gap g, or -1 before the gap is entered           *)
fillGaps(result, movable, mi, gaps, g, x) ==
  IF g > Len(gaps) THEN result
  ELSE LET from == IF x < 0 THEN gaps[g].start ELSE x
       IN  IF mi <= Len(movable)
              /\ from + result[movable[mi]].width <= gaps[g].end
           THEN fillGaps([result EXCEPT ![movable[mi]].x = from],
                         movable, mi + 1, gaps, g,
                         from + result[movable[mi]].width)
           ELSE fillGaps(result, movable, mi, gaps, g + 1, -1)

(* Step 3 for the row y, whose components are atY *)
positionSorted(result, y, atY) ==
  LET refs == [p \in 1..Len(atY) |-> ref(result, atY[p])]
      spansOtherRows(k) == result[k].height > 1 \/ result[k].y # y
      single(k) == ~ spansOtherRows(k)
      fixed == SelectSeq(refs, spansOtherRows)
      movable == SelectSeq(refs, single)
  IN  IF movable # <<>> /\ fixed # <<>>
      THEN fillGaps(result, movable, 1,
                    buildGaps(result, sortBy("x", result, fixed, undefined),
                              1, 0),
                    1, -1)
      ELSE result

(* Step 3 for the row y *)
positionRow(result, y) ==
  positionSorted(result, y,
                 sortBy("x", result,
                        uniqueById(result, componentsAtY(result, y)),
                        undefined))

RECURSIVE positionRows(_, _, _)
(* Step 3: every occupied row, from the top, each evaluated before the *)
(* next is entered                                                     *)
positionRows(result, ys, pos) ==
  IF pos > Len(ys) \/ Len(result) = 0 THEN result
  ELSE positionRows(positionRow(result, ys[pos]), ys, pos + 1)

(* Step 3 of solveLayout, made once Step 2 is *)
positionInGaps(packed) ==
  IF Len(packed) = 0 THEN packed
  ELSE positionRows(packed, getOccupiedYs(packed), 1)

(* The list is copied before Step 1; of no item the copy is the result *)
solveLayout(its, resizedId) ==
  IF Len(its) = 0 THEN its
  ELSE positionInGaps(packRows(shrinkRows(its, getOccupiedYs(its), 1,
                                          resizedId),
                               resizedId))

RECURSIVE pushPass(_, _, _, _)

(* A pass that leaves overlapping components where they are *)
pushPass_keeps(result, i, j, changed) ==
  [result |-> result, changed |-> FALSE]

(* One pass of the loops over the pairs i < j of pushDown (FR-020): of *)
(* two overlapping components the lower goes below the upper           *)
pushPass(result, i, j, changed) ==
  IF i > Len(result) THEN [result |-> result, changed |-> changed]
  ELSE IF j > Len(result) THEN pushPass(result, i + 1, i + 2, changed)
  ELSE IF overlaps(result[i], result[j])
       THEN LET up == IF result[i].y <= result[j].y THEN i ELSE j
                lo == IF result[i].y <= result[j].y THEN j ELSE i
            IN  pushPass([result EXCEPT
                            ![lo].y = result[up].y + result[up].height],
                         i, j + 1, TRUE)
       ELSE pushPass(result, i, j + 1, changed)

RECURSIVE pushDownOverlaps(_)
(* pushDown of the gravity engine *)
pushDownOverlaps(its) ==
  LET p == pushPass(its, 1, 2, FALSE)
  IN  IF p.changed THEN pushDownOverlaps(p.result) ELSE p.result

(* The first component other than k that k would overlap at row tryY, *)
(* 0 when there is none                                                *)
blocker(result, k, tryY) ==
  LET test == [result[k] EXCEPT !.y = tryY]
      blocks(o) == /\ result[o].componentId # result[k].componentId
                   /\ overlaps(test, result[o])
      found == SelectSeq([o \in 1..Len(result) |-> o], blocks)
  IN  IF found = <<>> THEN 0 ELSE Head(found)

RECURSIVE floatUp(_, _, _)
(* The loop over tryY for component k: the first free row above it *)
floatUp(result, k, tryY) ==
  IF tryY >= result[k].y THEN [result |-> result, changed |-> FALSE]
  ELSE LET b == blocker(result, k, tryY)
       IN  IF b = 0
           THEN [result |-> [result EXCEPT ![k].y = tryY], changed |-> TRUE]
           ELSE floatUp(result, k, result[b].y + result[b].height)

RECURSIVE gravityPass(_, _, _)
gravityPass(result, k, changed) ==
  IF k > Len(result) THEN [result |-> result, changed |-> changed]
  ELSE LET f == floatUp(result, k, 0)
       IN  gravityPass(f.result, k + 1, changed \/ f.changed)

RECURSIVE gravityCompact(_)
gravityCompact(its) ==
  LET order == sortBy("y", its, [k \in 1..Len(its) |-> k], undefined)
      sorted == [p \in 1..Len(its) |-> its[order[p]]]
      g == gravityPass(sorted, 1, FALSE)
  IN  IF g.changed THEN gravityCompact(g.result) ELSE g.result

MaxIterations == 20

(* current.every(old => next has the item of its id at the same place) *)
stable(current, next) ==
  /\ Len(current) = Len(next)
  /\ \A c \in 1..Len(current) :
       \E n \in 1..Len(next) :
         /\ next[n].componentId = current[c].componentId
         /\ \A e \in 1..(n - 1) :
              next[e].componentId # current[c].componentId
         /\ next[n].x = current[c].x
         /\ next[n].y = current[c].y
         /\ next[n].width = current[c].width
         /\ next[n].height = current[c].height

(* What one iteration of the loop of stabilize makes of current: solved, *)
(* pushed, compacted and solved again                                   *)
stabilizeStep(current, resizedId) ==
  solveLayout(gravityCompact(pushDownOverlaps(solveLayout(current,
                                                          resizedId))),
              resizedId)

RECURSIVE stabilizeFrom(_, _, _)

(* The end of iteration iter of the loop of stabilize: next is returned *)
(* when it is current, item by item, and after the last iteration       *)
stabilizeNext(current, next, resizedId, iter) ==
  IF stable(current, next) \/ iter + 1 >= MaxIterations THEN next
  ELSE stabilizeFrom(next, resizedId, iter + 1)

(* The for loop of stabilize from iteration iter *)
stabilizeFrom(current, resizedId, iter) ==
  stabilizeNext(current, stabilizeStep(current, resizedId), resizedId, iter)

stabilize(its, resizedId) == stabilizeFrom(its, resizedId, 0)

(* What the second layoutEngine module exports: every operation ends in  *)
(* stabilize, or in pushDown and gravityCompact, and repacks the list.   *)
(* This is the module that exports stabilize, the one App and            *)
(* DashboardGrid import.                                                 *)

layoutEngine_resizeWidth(its, componentId, newWidth) ==
  stabilize([k \in 1..Len(its) |->
               IF its[k].componentId = componentId
               THEN [its[k] EXCEPT
                       !.width = Max(1, Min(newWidth, GRID_COLUMNS))]
               ELSE its[k]],
            componentId)

layoutEngine_resizeLeftEdge(its, componentId, newX) ==
  IF ~ has(its, componentId) THEN its
  ELSE LET comp == find(its, componentId)
           clampedX == Max(0, Min(newX, comp.x + comp.width - 1))
       IN  stabilize([k \in 1..Len(its) |->
                        IF its[k].componentId = componentId
                        THEN [its[k] EXCEPT
                                !.x = clampedX,
                                !.width = comp.x + comp.width - clampedX]
                        ELSE its[k]],
                     componentId)

layoutEngine_resizeHeight(its, componentId, newHeight) ==
  LET clamped == Max(1, Min(newHeight, MAX_COMPONENT_HEIGHT))
      result == [k \in 1..Len(its) |->
                   IF its[k].componentId = componentId
                   THEN [its[k] EXCEPT !.height = clamped]
                   ELSE its[k]]
  IN  gravityCompact(pushDownOverlaps(result))

layoutEngine_addComponent(its, newItem) ==
  IF Len(componentsAtY(its, newItem.y)) + 1 > GRID_COLUMNS THEN null
  ELSE stabilize(Append(its, newItem), newItem.componentId)

layoutEngine_removeComponent(its, componentId) ==
  stabilize(without(its, componentId), undefined)

----------------------------------------------------------------------------
(* Calls of the domino-push engine.  items is the list a caller holds: one  *)
(* engine function is called on it and items becomes what the call returned *)
(* (a null result leaves the list as it was).  The starting layouts are the *)
(* valid layouts that successive addComponent calls build, so that every    *)
(* call is tried on every such layout, in every order of the list.          *)

ComponentTypes == {"Chart", "Grid", "KPI", "StylizedKPIGraph"}

StartXs == {1, 3, 4}

StartYs == {0, 1, 2}

StartWidths == {2}

StartHeights == {1, 2}

DropXs == {0, 3, 10}

DropYs == {0, 2, 25}

WidthRequests == {-3, 4, 8, 12, 13}

LeftRequests == {-1, 0, 2, 4, 12}

HeightRequests == {-3, 1, 2, 3, 9}

SearchYs == {0, 2, 25}

SearchSizes == {<<3, 2>>}

AbsentId == "no-such-id"

(* The sample dashboard of the application, as it is handed to stabilize, *)
(* and the list the page starts on                                        *)
INITIAL_ITEMS_input ==
  <<GridItem("chart-a", "Chart", 0, 0, 6, 2),
    GridItem("chart-b", "KPI", 6, 0, 6, 1),
    GridItem("kpi-c", "StylizedKPIGraph", 6, 1, 6, 1),
    GridItem("grid-d", "Grid", 0, 2, 12, 3)>>

INITIAL_ITEMS == stabilize(INITIAL_ITEMS_input, undefined)

NewId(n) == "comp-" \o ToString(n)

Ids(its) == {its[k].componentId : k \in 1..Len(its)}

StartItems(n) ==
  {GridItem(NewId(100 + n), "KPI", x, y, w, h) :
     x \in StartXs, y \in StartYs, w \in StartWidths, h \in StartHeights}

RECURSIVE StartLayouts(_)
StartLayouts(n) ==
  IF n = 0 THEN {<<>>}
  ELSE UNION {{addComponent(l, it) :
                 it \in {i \in StartItems(n) :
                           canFit(l, i.x, i.y, i.width, i.height, undefined)}} :
              l \in StartLayouts(n - 1)}

SampleLayouts ==
  { <<GridItem("a", "Chart", 0, 0, 6, 2), GridItem("b", "Chart", 6, 0, 6, 1)>>,
    <<GridItem("A", "KPI", 0, 0, 2, 1), GridItem("B", "KPI", 2, 0, 2, 3),
      GridItem("C", "KPI", 4, 1, 2, 1)>>,
    <<GridItem("p", "Chart", 5, 0, 3, 1), GridItem("q", "KPI", 3, 0, 2, 2),
      GridItem("r", "KPI", 1, 1, 2, 1)>>,
    <<GridItem("i1", "KPI", 6, 1, 1, 2), GridItem("i0", "KPI", 1, 1, 1, 1),
      GridItem("i3", "KPI", 4, 1, 1, 1), GridItem("i2", "KPI", 2, 1, 2, 1)>>,
    <<GridItem("i0", "KPI", 1, 1, 1, 1), GridItem("i2", "KPI", 2, 1, 2, 2),
      GridItem("i3", "KPI", 4, 1, 1, 1), GridItem("i1", "KPI", 6, 2, 1, 1)>> }

Idle ==
  [phase |-> "idle", op |-> "", id |-> "",
   x |-> 0, y |-> 0, width |-> 0, height |-> 0,
   before |-> <<>>, input |-> <<>>, result |-> <<>>,
   pos |-> nullCell, path |-> ""]

(* A call that has returned: the list it was made on as it was before the *)
(* call (before) and as it is after it (input), and what it returned      *)
Call(op, id, x, y, w, h, input, result, pos, path) ==
  [phase |-> "returned", op |-> op, id |-> id,
   x |-> x, y |-> y, width |-> w, height |-> h,
   before |-> items, input |-> input, result |-> result,
   pos |-> pos, path |-> path]

Init ==
  /\ items \in SampleLayouts \cup UNION {StartLayouts(n) : n \in 0..MaxItems}
  /\ idCounter = 100 + Len(items)
  /\ last = Idle

Ready == last.phase = "idle"

(* Each action is one call of a function of the engine on the current     *)
(* list, and items becomes the layout the caller holds once the call has  *)
(* returned: the list returned, or the list it called on when the engine  *)
(* answers null.                                                          *)
Add(type, x, y) ==
  /\ Ready
  /\ Len(items) < MaxItems
  /\ LET newItem == GridItem(NewId(idCounter + 1), type, x, y,
                             DEFAULT_SIZES[type].width,
                             DEFAULT_SIZES[type].height)
         result == addComponent(items, newItem)
     IN  /\ last' = Call("add", newItem.componentId, x, y,
                         newItem.width, newItem.height,
                         addComponentInput(items, newItem), result,
                         nullCell, "")
         /\ items' = IF result = null THEN items ELSE result
  /\ idCounter' = idCounter + 1

Remove(id) ==
  /\ Ready
  /\ last' = Call("remove", id, 0, 0, 0, 0,
                  removeComponentInput(items, id),
                  removeComponent(items, id), nullCell, "")
  /\ items' = removeComponent(items, id)
  /\ UNCHANGED idCounter

Reposition(id, x, y) ==
  /\ Ready
  /\ LET result == repositionComponent(items, id, x, y)
     IN  /\ last' = Call("reposition", id, x, y, 0, 0,
                         repositionComponentInput(items, id, x, y), result,
                         nullCell, "")
         /\ items' = IF result = null THEN items ELSE result
  /\ UNCHANGED idCounter

ResizeWidth(id, newWidth) ==
  /\ Ready
  /\ last' = Call("resizeWidth", id, 0, 0, newWidth, 0,
                  resizeWidthInput(items, id, newWidth),
                  resizeWidth(items, id, newWidth), nullCell,
                  resizeWidthOutcome(items, id, newWidth).path)
  /\ items' = resizeWidth(items, id, newWidth)
  /\ UNCHANGED idCounter

ResizeLeftEdge(id, newX) ==
  /\ Ready
  /\ last' = Call("resizeLeftEdge", id, newX, 0, 0, 0,
                  resizeLeftEdgeInput(items, id, newX),
                  resizeLeftEdge(items, id, newX), nullCell,
                  resizeLeftEdgeOutcome(items, id, newX).path)
  /\ items' = resizeLeftEdge(items, id, newX)
  /\ UNCHANGED idCounter

ResizeHeight(id, newHeight) ==
  /\ Ready
  /\ last' = Call("resizeHeight", id, 0, 0, 0, newHeight,
                  resizeHeightInput(items, id, newHeight),
                  resizeHeight(items, id, newHeight), nullCell,
                  resizeHeightOutcome(items, id, newHeight).path)
  /\ items' = resizeHeight(items, id, newHeight)
  /\ UNCHANGED idCounter

(* The search and the validator return a cell and a list of violations; *)
(* the layout stays as it is.                                           *)
Search(cx, cy, w, h, excludeId) ==
  /\ Ready
  /\ last' = Call("findNearestFreeCell", excludeId, cx, cy, w, h, items,
                  items, findNearestFreeCell(items, cx, cy, w, h, excludeId),
                  "")
  /\ UNCHANGED <<items, idCounter>>

Validate ==
  /\ Ready
  /\ last' = Call("validateLayout", "", 0, 0, 0, 0,
                  listOf(heapOf(items), 1), validateLayout(items), nullCell,
                  "")
  /\ UNCHANGED <<items, idCounter>>

(* A call for an id that is not in the list returns before it reads its *)
(* other arguments: one call of each operation is made                  *)
CallAbsent(op) ==
  CASE op = "reposition" -> Reposition(AbsentId, 3, 2)
    [] op = "resizeWidth" -> ResizeWidth(AbsentId, 4)
    [] op = "resizeLeftEdge" -> ResizeLeftEdge(AbsentId, 2)
    [] op = "resizeHeight" -> ResizeHeight(AbsentId, 3)

Next ==
  \/ \E type \in ComponentTypes, x \in DropXs, y \in DropYs : Add(type, x, y)
  \/ \E id \in Ids(items) \cup {AbsentId} : Remove(id)
  \/ \E id \in Ids(items), x \in DropXs, y \in DropYs : Reposition(id, x, y)
  \/ \E id \in Ids(items), w \in WidthRequests : ResizeWidth(id, w)
  \/ \E id \in Ids(items), x \in LeftRequests : ResizeLeftEdge(id, x)
  \/ \E id \in Ids(items), h \in HeightRequests : ResizeHeight(id, h)
  \/ \E op \in {"reposition", "resizeWidth", "resizeLeftEdge",
               "resizeHeight"} : CallAbsent(op)
  \/ \E cx \in DropXs, cy \in SearchYs, s \in SearchSizes,
        ex \in Ids(items) \cup {undefined} :
       Search(cx, cy, s[1], s[2], ex)
  \/ Validate

Spec == Init /\ [][Next]_vars

----------------------------------------------------------------------------
(* Vocabulary of the properties *)

NoOverlap(its) ==
  \A i, j \in 1..Len(its) : i < j => ~ overlaps(its[i], its[j])

InColumns(its) ==
  \A k \in 1..Len(its) :
    its[k].x >= 0 /\ its[k].x + its[k].width <= GRID_COLUMNS

Clamp(v, lo, hi) == IF v < lo THEN lo ELSE IF v > hi THEN hi ELSE v

Returned(op) == last.phase = "returned" /\ last.op = op

Target == find(last.before, last.id)

Resized == find(last.result, last.id)

Placed == last.result[Len(last.result)]

Rejected ==
  \/ last.op \in {"add", "reposition"} /\ last.result = null
  \/ last.op \in {"resizeWidth", "resizeLeftEdge"} /\ last.path = "rejected"

(* The rectangle (x, y, w, h) is legal among its, not counting excludeId *)
Legal(its, x, y, w, h, excludeId) ==
  /\ x >= 0
  /\ y >= 0
  /\ x + w <= GRID_COLUMNS
  /\ h <= MAX_COMPONENT_HEIGHT
  /\ \A k \in 1..Len(its) :
       its[k].componentId = excludeId
       \/ ~ overlaps(GridItem("", "", x, y, w, h), its[k])

(* The working copy once the rightward cascade of the last call has settled *)
WidthSettled ==
  LET resized == [Target EXCEPT
                    !.width = Clamp(last.width, 1, GRID_COLUMNS)]
  IN  Append(widthCascade(without(last.before, last.id), resized, 0).result,
             resized)

(* The left edge the last call asks for, and the other items once the *)
(* leftward cascade has settled                                        *)
LeftClamped == Clamp(last.x, 0, Target.x + Target.width - 1)

LeftSettled ==
  LET resized == [Target EXCEPT
                    !.x = LeftClamped,
                    !.width = Target.x + Target.width - LeftClamped]
  IN  leftCascade(without(last.before, last.id), resized, 0).result

----------------------------------------------------------------------------
(* C1: starting from a valid layout, after every engine operation the     *)
(* validator finds no violation in the current layout.                    *)
C1_ValidAfterEveryStep == validateLayout(items) = <<>>

(* C2: a rejected add, reposition, resizeWidth or resizeLeftEdge leaves   *)
(* the layout exactly as it was: the resize returns its input, and the    *)
(* list the caller holds after the call is the list it held before, item  *)
(* for item and field for field.                                          *)
C2_RejectionIsAtomic ==
  /\ (last.phase = "returned" /\ Rejected
        /\ last.op \in {"resizeWidth", "resizeLeftEdge"})
       => last.result = last.before
  /\ (last.phase = "returned" /\ Rejected) => items = last.before

C2_Witness ==
  /\ Returned("resizeWidth")
  /\ Rejected
  /\ \E k \in 1..Len(WidthSettled) :
       /\ WidthSettled[k].componentId # last.id
       /\ WidthSettled[k] # find(last.before, WidthSettled[k].componentId)

(* C3: on a valid layout, resizeWidth returns its input unchanged when    *)
(* the settled cascade leaves any item, pushed or resized, with           *)
(* x + width > GRID_COLUMNS; every item of every returned layout has      *)
(* x + width <= GRID_COLUMNS; resizing a = (0,0,6,2) next to b = (6,0,6,1)*)
(* to width 8 returns the input.                                          *)
C3_WidthStaysInColumns ==
  (Returned("resizeWidth") /\ has(last.before, last.id)
     /\ validateLayout(last.before) = <<>>)
  => /\ (\E k \in 1..Len(WidthSettled) :
           WidthSettled[k].x + WidthSettled[k].width > GRID_COLUMNS)
          => last.result = last.before
     /\ \A k \in 1..Len(last.result) :
          last.result[k].x + last.result[k].width <= GRID_COLUMNS
     /\ (/\ last.before = <<GridItem("a", "Chart", 0, 0, 6, 2),
                            GridItem("b", "Chart", 6, 0, 6, 1)>>
         /\ last.id = "a"
         /\ last.width = 8)
          => last.result = last.before

(* C4: on a valid layout, in any order of the list, the layout returned   *)
(* by resizeHeight has no two overlapping items.                          *)
C4_HeightResultHasNoOverlap ==
  (Returned("resizeHeight") /\ validateLayout(last.before) = <<>>)
  => NoOverlap(last.result)

(* C5: in a committed rightward cascade on a valid layout, an item whose  *)
(* rows the resized item does not reach is pushed all the same when a     *)
(* pushed item comes to stand on its place, and an item of those rows     *)
(* that is moved lands at the right edge of a pushed item of its rows:    *)
(* its x is that item's x + width in the returned layout; no y changes;   *)
(* with A = (0,0,2,1), B = (2,0,2,3), C = (4,1,2,1), resizeWidth(A, 4)    *)
(* gives A width 4, B x = 4, C x = 6.                                     *)
C5_LandsAtPusher ==
  (Returned("resizeWidth") /\ last.path = "pushed"
     /\ validateLayout(last.before) = <<>>)
  => /\ \A o \in Ids(last.before) \ {last.id} :
          LET ob == find(last.before, o)
              oa == find(last.result, o)
              pushedIds == {p \in Ids(last.before) \ {last.id, o} :
                             find(last.result, p).x # find(last.before, p).x}
          IN  ~ vOverlaps(Target, ob)
                => /\ (\E p \in pushedIds :
                         overlaps(find(last.result, p), ob))
                       => oa.x # ob.x
                   /\ oa.x # ob.x
                       => \E p \in pushedIds :
                            /\ vOverlaps(find(last.result, p), oa)
                            /\ oa.x = find(last.result, p).x
                                        + find(last.result, p).width
                   /\ oa.y = ob.y
     /\ (/\ last.before = <<GridItem("A", "KPI", 0, 0, 2, 1),
                            GridItem("B", "KPI", 2, 0, 2, 3),
                            GridItem("C", "KPI", 4, 1, 2, 1)>>
         /\ last.id = "A"
         /\ last.width = 4)
          => last.result = <<GridItem("B", "KPI", 4, 0, 2, 3),
                             GridItem("C", "KPI", 6, 1, 2, 1),
                             GridItem("A", "KPI", 0, 0, 4, 1)>>

(* C6: resizeLeftEdge keeps the resized item's right edge, y and height;  *)
(* a rejected call returns its input.                                     *)
C6_LeftEdgeKeepsRightEdge ==
  (Returned("resizeLeftEdge") /\ has(last.before, last.id))
  => /\ Resized.x + Resized.width = Target.x + Target.width
     /\ Resized.y = Target.y
     /\ Resized.height = Target.height
     /\ last.path = "rejected" => last.result = last.before

C6_Witness ==
  /\ Returned("resizeLeftEdge")
  /\ last.path = "pushed"
  /\ Resized.x < Target.x
  /\ Resized.width > Target.width

(* C7 as stated: on a valid layout resizeLeftEdge returns a list with    *)
(* the items, the order and the values of its input exactly when the     *)
(* settled leftward cascade leaves some item with x < 0; otherwise the   *)
(* resized item has x = clamp(newX, 0, x + width - 1), no two items      *)
(* overlap and every item lies within the columns.                       *)
C7_UnchangedExactlyWhenNegative ==
  (Returned("resizeLeftEdge") /\ has(last.before, last.id)
     /\ validateLayout(last.before) = <<>>)
  => LET negative == \E k \in 1..Len(LeftSettled) : LeftSettled[k].x < 0
     IN  /\ (last.result = last.before) <=> negative
         /\ ~ negative =>
              /\ Resized.x = LeftClamped
              /\ NoOverlap(last.result)
              /\ InColumns(last.result)

(* C7 amended: on a valid layout resizeLeftEdge returns a list with the  *)
(* items, the order and the values of its input in two cases and in no   *)
(* other: the settled leftward cascade leaves some item with x < 0, or   *)
(* the request asks for the x the item has and the item is the last of   *)
(* the list.  When no item is left with x < 0 the resized item has       *)
(* x = clamp(newX, 0, x + width - 1), no two items overlap and every     *)
(* item lies within the columns.                                         *)
C7_LeftEdgeCommitOrReject ==
  (Returned("resizeLeftEdge") /\ has(last.before, last.id)
     /\ validateLayout(last.before) = <<>>)
  => LET negative == \E k \in 1..Len(LeftSettled) : LeftSettled[k].x < 0
         asked == /\ LeftClamped = Target.x
                  /\ last.before[Len(last.before)].componentId = last.id
     IN  /\ (last.result = last.before) <=> (negative \/ asked)
         /\ ~ negative =>
              /\ Resized.x = LeftClamped
              /\ NoOverlap(last.result)
              /\ InColumns(last.result)

(* A request that moves the left edge, refused for an item at x < 0 *)
C7_Witness ==
  /\ Returned("resizeLeftEdge")
  /\ has(last.before, last.id)
  /\ validateLayout(last.before) = <<>>
  /\ LeftClamped # Target.x
  /\ \E k \in 1..Len(LeftSettled) : LeftSettled[k].x < 0
  /\ last.result = last.before

(* C8: resizeHeight never refuses: the item gets the requested height     *)
(* clamped to 1..MAX_COMPONENT_HEIGHT and keeps its x, y and width, also  *)
(* when the new footprint collides.                                       *)
C8_HeightNeverRejects ==
  (Returned("resizeHeight") /\ has(last.before, last.id))
  => /\ Resized.height = Clamp(last.height, 1, MAX_COMPONENT_HEIGHT)
     /\ Resized.x = Target.x
     /\ Resized.y = Target.y
     /\ Resized.width = Target.width
     /\ Resized.height # Target.height => last.result # last.before

C8_Witness ==
  /\ Returned("resizeHeight")
  /\ last.path = "pushed"
  /\ Resized.height > Target.height
  /\ \E k \in 1..Len(last.before) :
       /\ last.before[k].componentId # last.id
       /\ overlaps(Resized, last.before[k])

(* C9: a successful add or reposition places the item at the requested x  *)
(* and at a y not above the requested y; the search never returns another *)
(* x than the one it was given.                                           *)
C9_SearchLocksX ==
  /\ (last.op \in {"add", "reposition"} /\ last.phase = "returned"
        /\ last.result # null)
       => /\ Placed.componentId = last.id
          /\ Placed.x = last.x
          /\ Placed.y >= last.y
  /\ (Returned("findNearestFreeCell") /\ last.pos # nullCell)
       => last.pos.x = last.x

C9_Witness ==
  /\ Returned("reposition")
  /\ last.result # null
  /\ Placed.y > last.y
  /\ Target.x # last.x

(* C10: the row the search returns is legal and is the first legal row at *)
(* or below the target; a legal target is returned as it is.              *)
C10_FirstLegalRow ==
  (Returned("findNearestFreeCell") /\ last.pos # nullCell)
  => /\ Legal(last.before, last.x, last.pos.y, last.width, last.height,
              last.id)
     /\ last.pos.y >= last.y
     /\ \A y \in last.y..(last.pos.y - 1) :
          ~ Legal(last.before, last.x, y, last.width, last.height, last.id)
     /\ Legal(last.before, last.x, last.y, last.width, last.height, last.id)
          => last.pos = [x |-> last.x, y |-> last.y]

C10_Witness ==
  /\ Returned("findNearestFreeCell")
  /\ last.pos # nullCell
  /\ last.pos.y > last.y
  /\ has(last.before, last.id)
  /\ overlaps(GridItem("", "", last.x, last.pos.y, last.width, last.height),
              find(last.before, last.id))

----------------------------------------------------------------------------
(* Size of the item the last add or reposition was asked to place *)

PlacedWidth == IF last.op = "add" THEN last.width ELSE Target.width

PlacedHeight == IF last.op = "add" THEN last.height ELSE Target.height

(* The request of the last add or reposition is one the grid has room for: *)
(* within the columns, of a legal height, at a row y >= 0, and for a       *)
(* reposition the id exists.                                               *)
PlacementAsked ==
  /\ last.phase = "returned"
  /\ last.op \in {"add", "reposition"}
  /\ last.op = "reposition" => has(last.before, last.id)
  /\ last.x >= 0
  /\ last.x + PlacedWidth <= GRID_COLUMNS
  /\ PlacedHeight >= 1
  /\ PlacedHeight <= MAX_COMPONENT_HEIGHT
  /\ last.y >= 0

(* C11: an add (or a reposition of an existing id) whose item lies within *)
(* the columns, has a height in 1..MAX_COMPONENT_HEIGHT and any target    *)
(* row y >= 0 is never rejected, and the item lands at the target or at   *)
(* the first open row directly below it.                                  *)
C11_PlacementNeverRejected ==
  PlacementAsked
  => /\ last.result # null
     /\ Placed.x = last.x
     /\ Legal(without(last.before, last.id), last.x, Placed.y,
              PlacedWidth, PlacedHeight, undefined)
     /\ \A y \in last.y..(Placed.y - 1) :
          ~ Legal(without(last.before, last.id), last.x, y,
                  PlacedWidth, PlacedHeight, undefined)

(* C12: removeComponent always returns a layout; with an id that is not   *)
(* in the layout it returns a layout equal to its input; removing the     *)
(* same id from the returned layout again changes nothing.                *)
C12_RemoveIdempotent ==
  Returned("remove")
  => /\ last.result # null
     /\ ~ has(last.before, last.id) => last.result = last.before
     /\ removeComponent(last.result, last.id) = last.result
     /\ ~ has(last.result, last.id)

C12_Witness ==
  /\ Returned("remove")
  /\ ~ has(last.before, last.id)
  /\ Len(last.before) >= 2
  /\ last.result = last.before

(* Position of the removed id in the list the call was made on, 0 if absent *)
RemovedAt ==
  IF has(last.before, last.id)
  THEN CHOOSE k \in 1..Len(last.before) :
         last.before[k].componentId = last.id
  ELSE 0

(* C13: removeComponent returns the other items with all their fields     *)
(* unchanged and in the same relative order: the list before the removed  *)
(* item followed by the list after it; nothing floats up or shifts left.  *)
C13_RemoveMovesNothing ==
  Returned("remove")
  => /\ RemovedAt = 0 => last.result = last.before
     /\ RemovedAt > 0 =>
          last.result = SubSeq(last.before, 1, RemovedAt - 1)
                          \o SubSeq(last.before, RemovedAt + 1,
                                    Len(last.before))
     /\ \A k \in 1..Len(last.before) :
          last.before[k].componentId # last.id
            => find(last.result, last.before[k].componentId) = last.before[k]

(* The removed item had another item standing below it, in its columns *)
C13_Witness ==
  /\ Returned("remove")
  /\ RemovedAt > 0
  /\ RemovedAt < Len(last.before)
  /\ \E k \in 1..Len(last.result) :
       /\ last.result[k].y >= Target.y + Target.height
       /\ last.result[k].x < Target.x + Target.width
       /\ Target.x < last.result[k].x + last.result[k].width
       /\ last.result[k] = find(last.before, last.result[k].componentId)

(* C14: repositionComponent returns null for an absent id; when it        *)
(* succeeds the moved item keeps its id, type, width and height, every    *)
(* other item keeps all its fields, and the moved item's old footprint is *)
(* no obstacle: a target that is legal among the other items is taken.    *)
C14_RepositionFrame ==
  Returned("reposition")
  => /\ ~ has(last.before, last.id) => last.result = null
     /\ (has(last.before, last.id) /\ last.result # null) =>
          /\ Len(last.result) = Len(last.before)
          /\ Resized = Placed
          /\ Placed = [Target EXCEPT !.x = Placed.x, !.y = Placed.y]
          /\ \A k \in 1..Len(last.before) :
               last.before[k].componentId # last.id
                 => find(last.result, last.before[k].componentId)
                      = last.before[k]
          /\ Legal(without(last.before, last.id), last.x, last.y,
                   Target.width, Target.height, undefined)
               => Placed.x = last.x /\ Placed.y = last.y

(* The item is dropped on a place that overlaps where it stood *)
C14_Witness ==
  /\ Returned("reposition")
  /\ has(last.before, last.id)
  /\ last.result # null
  /\ Len(last.before) >= 2
  /\ <<Placed.x, Placed.y>> = <<last.x, last.y>>
  /\ <<Placed.x, Placed.y>> # <<Target.x, Target.y>>
  /\ overlaps(Placed, Target)

----------------------------------------------------------------------------
(* The validator as a function of any item list.  A second specification   *)
(* hands it lists of items whose fields range over legal and illegal       *)
(* values, the lists the engine never builds included.                     *)

MaxValidated == 2

ValidatedXs == {-1, 0, 10, 11}

ValidatedYs == {-1, 0}

(* <<width, height>>: the smallest and largest legal values and the *)
(* first illegal value on each side                                 *)
ValidatedSizes == {<<0, 1>>, <<1, 0>>, <<1, 1>>, <<2, 1>>, <<1, 8>>, <<2, 9>>}

ValidatedItems(n) ==
  {GridItem("v" \o ToString(n), "KPI", x, y, s[1], s[2]) :
     x \in ValidatedXs, y \in ValidatedYs, s \in ValidatedSizes}

RECURSIVE ValidatedLayouts(_)
ValidatedLayouts(n) ==
  IF n = 0 THEN {<<>>}
  ELSE {Append(l, it) : l \in ValidatedLayouts(n - 1), it \in ValidatedItems(n)}

(* Three items: all pairs overlapping, and the stacked result of claim C4 *)
ValidatedSamples ==
  { <<GridItem("v1", "KPI", 0, 0, 2, 2), GridItem("v2", "KPI", 1, 0, 2, 2),
      GridItem("v3", "KPI", 1, 1, 2, 1)>>,
    <<GridItem("C", "KPI", 0, 3, 2, 1), GridItem("B", "KPI", 0, 3, 2, 1),
      GridItem("A", "KPI", 0, 0, 2, 3)>>,
    <<GridItem("v1", "Chart", 0, 0, 6, 2), GridItem("v2", "Chart", 6, 0, 6, 1),
      GridItem("v3", "Grid", 0, 2, 12, 3)>> }

InitValidator ==
  /\ items \in ValidatedSamples
                 \cup UNION {ValidatedLayouts(n) : n \in 0..MaxValidated}
  /\ idCounter = 100
  /\ last = Idle

NextValidator == Validate

SpecValidator == InitValidator /\ [][NextValidator]_vars

(* The three groups of invariants of a valid layout *)

ItemInColumns(item) == item.x >= 0 /\ item.x + item.width <= GRID_COLUMNS

ItemWellFormed(item) ==
  /\ item.y >= 0
  /\ item.width >= 1
  /\ item.height >= 1
  /\ item.height <= MAX_COMPONENT_HEIGHT

(* Number of records of the last validation of a type and about components *)
Records(type, components) ==
  Cardinality({k \in 1..Len(last.result) :
                 /\ last.result[k].type = type
                 /\ last.result[k].components = components})

(* C15: validateLayout returns no violation exactly when no two distinct  *)
(* items overlap (half-open rectangles), every item has x >= 0 and        *)
(* x + width <= GRID_COLUMNS, and every item has y >= 0, width >= 1 and   *)
(* 1 <= height <= MAX_COMPONENT_HEIGHT.                                   *)
C15_ValidatorExact ==
  Returned("validateLayout")
  => (last.result = <<>>
        <=> /\ NoOverlap(items)
            /\ \A k \in 1..Len(items) :
                 ItemInColumns(items[k]) /\ ItemWellFormed(items[k]))

(* Two items that touch along an edge, each with a legal extreme value *)
C15_Witness ==
  /\ Returned("validateLayout")
  /\ last.result = <<>>
  /\ Len(items) = 2
  /\ items[1].x + items[1].width = items[2].x
  /\ items[2].x + items[2].width = GRID_COLUMNS
  /\ items[1].height = MAX_COMPONENT_HEIGHT

(* C16: validateLayout emits one 'overlap' record naming both ids for     *)
(* each unordered pair of overlapping items and none for a pair that only *)
(* touches; for each item one 'out_of_bounds' record iff                  *)
(* x + width > GRID_COLUMNS and one 'invalid_dimensions' record iff       *)
(* x < 0, y < 0, width < 1, height < 1 or height > MAX_COMPONENT_HEIGHT,  *)
(* each independently of the other; and no other record.                  *)
C16_ValidatorRecords ==
  Returned("validateLayout")
  => /\ \A i, j \in 1..Len(items) :
          i < j =>
            /\ Records("overlap",
                       <<items[i].componentId, items[j].componentId>>)
                 = IF overlaps(items[i], items[j]) THEN 1 ELSE 0
            /\ Records("overlap",
                       <<items[j].componentId, items[i].componentId>>) = 0
     /\ \A k \in 1..Len(items) :
          /\ Records("out_of_bounds", <<items[k].componentId>>)
               = IF items[k].x + items[k].width > GRID_COLUMNS THEN 1 ELSE 0
          /\ Records("invalid_dimensions", <<items[k].componentId>>)
               = IF \/ items[k].x < 0
                    \/ ~ ItemWellFormed(items[k])
                 THEN 1 ELSE 0
     /\ \A k \in 1..Len(last.result) :
          \/ /\ last.result[k].type = "overlap"
             /\ \E i, j \in 1..Len(items) :
                  /\ i < j
                  /\ last.result[k].components
                       = <<items[i].componentId, items[j].componentId>>
          \/ /\ last.result[k].type \in {"out_of_bounds", "invalid_dimensions"}
             /\ \E i \in 1..Len(items) :
                  last.result[k].components = <<items[i].componentId>>

(* One item with both records of its own, touching another at a corner *)
C16_Witness ==
  /\ Returned("validateLayout")
  /\ Len(items) = 2
  /\ Records("out_of_bounds", <<items[2].componentId>>) = 1
  /\ Records("invalid_dimensions", <<items[2].componentId>>) = 1
  /\ items[1].x + items[1].width = items[2].x
  /\ items[1].y + items[1].height = items[2].y
  /\ Records("overlap", <<items[1].componentId, items[2].componentId>>) = 0

EngineOps ==
  {"add", "remove", "reposition", "resizeWidth", "resizeLeftEdge",
   "resizeHeight"}

(* C17: when an engine operation or the validator has returned, with a    *)
(* new layout or with a rejection, the list it was called on is what it   *)
(* was before the call: same length, same order, same field values, also  *)
(* after a cascade has sorted its working list and moved items in it.     *)
C17_InputNotModified ==
  (last.phase = "returned" /\ last.op \in EngineOps \cup {"validateLayout"})
  => last.input = last.before

(* A committed-to-be cascade that reordered its working list and moved an *)
(* item, seen from the caller's list                                      *)
C17_Witness ==
  /\ Returned("resizeWidth")
  /\ last.path \in {"pushed", "rejected"}
  /\ last.input = last.before
  /\ Len(last.input) = 3
  /\ WidthSettled # Append(without(last.before, last.id), WidthSettled[3])
  /\ \E k \in 1..2 :
       WidthSettled[k] # find(last.before, WidthSettled[k].componentId)
  /\ \E k \in 1..2 :
       WidthSettled[k].componentId
         # without(last.before, last.id)[k].componentId

(* The item of the returned layout with the id of item k of the input *)
After(k) == find(last.result, last.before[k].componentId)

(* C18: resizeWidth and resizeLeftEdge return every item with its y and   *)
(* height unchanged and every item but the target with its width          *)
(* unchanged; resizeHeight returns every item with its x and width        *)
(* unchanged and every item but the target with its height unchanged.     *)
C18_AxisFrame ==
  /\ (last.phase = "returned" /\ last.op \in {"resizeWidth", "resizeLeftEdge"})
       => /\ Len(last.result) = Len(last.before)
          /\ \A k \in 1..Len(last.before) :
               /\ has(last.result, last.before[k].componentId)
               /\ After(k).y = last.before[k].y
               /\ After(k).height = last.before[k].height
               /\ last.before[k].componentId # last.id
                    => After(k).width = last.before[k].width
  /\ Returned("resizeHeight")
       => /\ Len(last.result) = Len(last.before)
          /\ \A k \in 1..Len(last.before) :
               /\ has(last.result, last.before[k].componentId)
               /\ After(k).x = last.before[k].x
               /\ After(k).width = last.before[k].width
               /\ last.before[k].componentId # last.id
                    => After(k).height = last.before[k].height

(* A rightward cascade that moved two items *)
C18_Witness ==
  /\ Returned("resizeWidth")
  /\ last.path = "pushed"
  /\ Cardinality({k \in 1..Len(last.before) :
                    After(k).x # last.before[k].x}) >= 2

(* C19: for any requested number, zero, negative and oversized included,  *)
(* resizeWidth gives the item the width clamped to 1..GRID_COLUMNS unless *)
(* it refuses, resizeHeight the height clamped to                         *)
(* 1..MAX_COMPONENT_HEIGHT, resizeLeftEdge the left edge clamped to       *)
(* 0..x + width - 1 unless it refuses; in every returned layout the       *)
(* target has width >= 1 and 1 <= height <= MAX_COMPONENT_HEIGHT.         *)
C19_RequestsClamped ==
  (last.phase = "returned" /\ has(last.before, last.id)
     /\ last.op \in {"resizeWidth", "resizeLeftEdge", "resizeHeight"})
  => /\ Resized.width >= 1
     /\ Resized.height >= 1
     /\ Resized.height <= MAX_COMPONENT_HEIGHT
     /\ (last.op = "resizeWidth" /\ last.path # "rejected")
          => Resized.width = Clamp(last.width, 1, GRID_COLUMNS)
     /\ last.op = "resizeHeight"
          => Resized.height = Clamp(last.height, 1, MAX_COMPONENT_HEIGHT)
     /\ (last.op = "resizeLeftEdge" /\ last.path # "rejected")
          => /\ Resized.x = Clamp(last.x, 0, Target.x + Target.width - 1)
             /\ Resized.x >= 0
             /\ Resized.x <= Target.x + Target.width - 1

(* A negative height is asked of an item of height 2 *)
C19_Witness ==
  /\ Returned("resizeHeight")
  /\ has(last.before, last.id)
  /\ last.height < 0
  /\ Target.height = 2
  /\ Resized.height = 1

----------------------------------------------------------------------------
(* A resize drag.  Pressing the mouse on an edge handle of a cell installs  *)
(* a mousemove listener on the window.  The listener is a closure of the    *)
(* render in which the mouse went down: it calls the onResize... handler of *)
(* that render, and the handler calls the engine on the item list of that   *)
(* render and hands the result to onChange, which sets the current list.    *)

CELL_HEIGHT_PX == 80

ContainerWidth == 960

colPx == ContainerWidth \div GRID_COLUMNS

MaxSamples == 2

PointerDeltas == {-80, 30, 160, 480}

resize(op, its, id, value) ==
  CASE op = "resizeWidth" -> layoutEngine_resizeWidth(its, id, value)
    [] op = "resizeLeftEdge" -> layoutEngine_resizeLeftEdge(its, id, value)
    [] op = "resizeHeight" -> layoutEngine_resizeHeight(its, id, value)

NoGesture ==
  [phase |-> "none", op |-> "", id |-> "", startVal |-> 0,
   handlerItems |-> <<>>, samples |-> 0, request |-> 0,
   before |-> <<>>, committed |-> <<>>, result |-> <<>>]

InitGesture ==
  /\ items = INITIAL_ITEMS
  /\ idCounter = 100
  /\ last = NoGesture

MouseDown(op, id) ==
  /\ last.phase = "none"
  /\ LET item == find(items, id)
     IN  last' = [NoGesture EXCEPT
                    !.phase = "down", !.op = op, !.id = id,
                    !.startVal = CASE op = "resizeWidth" -> item.width
                                   [] op = "resizeLeftEdge" -> item.x
                                   [] op = "resizeHeight" -> item.height,
                    !.handlerItems = items]
  /\ UNCHANGED <<items, idCounter>>

MouseMove(delta) ==
  /\ last.phase \in {"down", "moved"}
  /\ last.samples < MaxSamples
  /\ LET request ==
           CASE last.op = "resizeWidth" ->
                  Max(1, last.startVal + round(delta, colPx))
             [] last.op = "resizeLeftEdge" ->
                  last.startVal + round(delta, colPx)
             [] last.op = "resizeHeight" ->
                  Max(1, last.startVal + round(delta, CELL_HEIGHT_PX))
         result == resize(last.op, last.handlerItems, last.id, request)
     IN  /\ items' = result
         /\ last' = [last EXCEPT
                       !.phase = "moved", !.samples = @ + 1,
                       !.request = request,
                       !.before = last.handlerItems,
                       !.committed = items,
                       !.result = result]
  /\ UNCHANGED idCounter

MouseUp ==
  /\ last.phase \in {"down", "moved"}
  /\ last' = [last EXCEPT !.phase = "up"]
  /\ UNCHANGED <<items, idCounter>>

NextGesture ==
  \/ \E op \in {"resizeWidth", "resizeLeftEdge", "resizeHeight"},
        id \in Ids(items) : MouseDown(op, id)
  \/ \E delta \in PointerDeltas : MouseMove(delta)
  \/ MouseUp

SpecGesture == InitGesture /\ [][NextGesture]_vars

(* C20: every engine call of the calling layer is made on the layout that *)
(* was committed last; in a resize drag each pointer-move sample is       *)
(* computed from the layout the previous sample committed, never from a   *)
(* layout captured earlier in the gesture.                                *)
C20_CallsUseCommittedLayout ==
  last.phase = "moved" => last.before = last.committed

----------------------------------------------------------------------------
(* Sequences of placement calls from the empty layout.  Each action is one *)
(* call together with what the caller does with its result: a returned     *)
(* list becomes the current list, a null leaves the current list as it is. *)

MaxCalls == 3

PlacementXs == {0, 3, 10}

PlacementYs == {0, 2}

NoCall ==
  [phase |-> "none", op |-> "", id |-> "", x |-> 0, y |-> 0,
   before |-> <<>>, result |-> <<>>, calls |-> 0]

Placement(op, id, x, y, result) ==
  [phase |-> "placed", op |-> op, id |-> id, x |-> x, y |-> y,
   before |-> items, result |-> result, calls |-> last.calls + 1]

InitPlacement ==
  /\ items = <<>>
  /\ idCounter = 100
  /\ last = NoCall

PlaceAdd(type, x, y) ==
  /\ last.calls < MaxCalls
  /\ LET newItem == GridItem(NewId(idCounter + 1), type, x, y,
                             DEFAULT_SIZES[type].width,
                             DEFAULT_SIZES[type].height)
         result == addComponent(items, newItem)
     IN  /\ last' = Placement("add", newItem.componentId, x, y, result)
         /\ items' = IF result = null THEN items ELSE result
  /\ idCounter' = idCounter + 1

PlaceRemove(id) ==
  /\ last.calls < MaxCalls
  /\ last' = Placement("remove", id, 0, 0, removeComponent(items, id))
  /\ items' = removeComponent(items, id)
  /\ UNCHANGED idCounter

PlaceReposition(id, x, y) ==
  /\ last.calls < MaxCalls
  /\ LET result == repositionComponent(items, id, x, y)
     IN  /\ last' = Placement("reposition", id, x, y, result)
         /\ items' = IF result = null THEN items ELSE result
  /\ UNCHANGED idCounter

NextPlacement ==
  \/ \E type \in ComponentTypes, x \in PlacementXs, y \in PlacementYs :
       PlaceAdd(type, x, y)
  \/ \E id \in Ids(items) \cup {AbsentId} : PlaceRemove(id)
  \/ \E id \in Ids(items) \cup {AbsentId},
        x \in PlacementXs, y \in PlacementYs : PlaceReposition(id, x, y)

SpecPlacement == InitPlacement /\ [][NextPlacement]_vars

(* C21: from the empty layout, after any sequence of addComponent,        *)
(* removeComponent and repositionComponent calls, rejected calls leaving  *)
(* the layout as it is, no two items overlap and every item has x >= 0,   *)
(* y >= 0 and x + width <= GRID_COLUMNS.                                  *)
C21_PlacementKeepsValid ==
  /\ NoOverlap(items)
  /\ \A k \in 1..Len(items) :
       /\ items[k].x >= 0
       /\ items[k].y >= 0
       /\ items[k].x + items[k].width <= GRID_COLUMNS
  /\ (last.phase = "placed" /\ last.result = null) => items = last.before

(* An item is moved onto an occupied place and lands below it *)
C21_Witness ==
  /\ last.phase = "placed"
  /\ last.op = "reposition"
  /\ last.calls >= 3
  /\ last.result # null
  /\ Len(items) >= 2
  /\ items[Len(items)].y > last.y
  /\ \E k \in 1..(Len(items) - 1) :
       overlaps([items[Len(items)] EXCEPT !.y = last.y], items[k])

(* The footprint the last resize asks for: the target with the clamped   *)
(* width, left edge or height                                            *)
Requested ==
  CASE last.op = "resizeWidth" ->
         [Target EXCEPT !.width = Clamp(last.width, 1, GRID_COLUMNS)]
    [] last.op = "resizeLeftEdge" ->
         [Target EXCEPT !.x = LeftClamped,
                        !.width = Target.x + Target.width - LeftClamped]
    [] last.op = "resizeHeight" ->
         [Target EXCEPT
            !.height = Clamp(last.height, 1, MAX_COMPONENT_HEIGHT)]

OthersUntouched ==
  /\ Len(last.result) = Len(last.before)
  /\ \A k \in 1..Len(last.before) :
       last.before[k].componentId # last.id
         => find(last.result, last.before[k].componentId) = last.before[k]

(* C22: on a valid layout, when the footprint a resize asks for is within *)
(* the columns and overlaps no other item, and whenever the request       *)
(* shrinks the item or keeps its size, the resize gives the target that   *)
(* footprint and returns every other item with its x, y, width and height *)
(* as they were.                                                          *)
C22_DirectApplyFrame ==
  (last.phase = "returned" /\ has(last.before, last.id)
     /\ last.op \in {"resizeWidth", "resizeLeftEdge", "resizeHeight"}
     /\ validateLayout(last.before) = <<>>)
  => LET fits == Legal(last.before, Requested.x, Requested.y,
                       Requested.width, Requested.height, last.id)
         shrinks == /\ Requested.width <= Target.width
                    /\ Requested.height <= Target.height
     IN  /\ shrinks => fits
         /\ fits => /\ OthersUntouched
                    /\ Resized = Requested
                    /\ last.path \in {"direct", "shrink"}

(* An item shrinks away from a neighbour that touches its right edge *)
C22_Witness ==
  /\ Returned("resizeWidth")
  /\ has(last.before, last.id)
  /\ Resized.width < Target.width
  /\ OthersUntouched
  /\ \E k \in 1..Len(last.before) :
       /\ last.before[k].x = Target.x + Target.width
       /\ vOverlaps(last.before[k], Target)

hOverlaps(a, b) == a.x < b.x + b.width /\ b.x < a.x + a.width

(* Items of the input that the last call returned at another place *)
MovedIds ==
  {last.before[k].componentId : k \in
     {j \in 1..Len(last.before) :
        /\ last.before[j].componentId # last.id
        /\ After(j) # last.before[j]}}

(* C23: resizeWidth and resizeLeftEdge move no item that vertically       *)
(* overlaps neither the resized item nor another item they moved;         *)
(* resizeHeight moves no item that horizontally overlaps neither the      *)
(* resized item nor another item it moved.                                *)
C23_PushChainFrame ==
  (last.phase = "returned" /\ has(last.before, last.id)
     /\ last.op \in {"resizeWidth", "resizeLeftEdge", "resizeHeight"}
     /\ validateLayout(last.before) = <<>>)
  => \A m \in MovedIds :
       LET moved == find(last.result, m)
           touches(p) == IF last.op = "resizeHeight"
                         THEN hOverlaps(moved, p) ELSE vOverlaps(moved, p)
       IN  \/ touches(Resized)
           \/ \E p \in MovedIds \ {m} : touches(find(last.result, p))

(* A cascade moved one item and left alone an item in another row that *)
(* stands in the columns the cascade went through                      *)
C23_Witness ==
  /\ Returned("resizeWidth")
  /\ last.path = "pushed"
  /\ MovedIds # {}
  /\ \E k \in 1..Len(last.before) :
       /\ last.before[k].componentId \notin MovedIds \cup {last.id}
       /\ ~ vOverlaps(last.before[k], Resized)
       /\ \A p \in MovedIds : ~ vOverlaps(last.before[k], find(last.result, p))
       /\ last.before[k].x >= Target.x + Target.width
       /\ last.before[k].x < Resized.x + Resized.width

(* C24: in a layout returned by a rightward cascade every moved item has  *)
(* its left edge at the right edge of the resized item or of an item it   *)
(* vertically overlaps; in a layout returned by a leftward cascade every  *)
(* moved item has its right edge at the left edge of the resized item or  *)
(* of an item it vertically overlaps.                                     *)
C24_FlushPlacement ==
  (last.phase = "returned" /\ last.path = "pushed"
     /\ last.op \in {"resizeWidth", "resizeLeftEdge"}
     /\ validateLayout(last.before) = <<>>)
  => \A m \in MovedIds :
       LET moved == find(last.result, m)
           flush(p) == IF last.op = "resizeWidth"
                       THEN p.x + p.width = moved.x
                       ELSE moved.x + moved.width = p.x
       IN  \/ flush(Resized)
           \/ \E k \in 1..Len(last.result) :
                /\ last.result[k].componentId \notin {m, last.id}
                /\ vOverlaps(last.result[k], moved)
                /\ flush(last.result[k])

----------------------------------------------------------------------------
(* One resize call, step by step.  A step is one iteration of the for loop  *)
(* of a width cascade (the item of the iteration is tested against the      *)
(* resized item, then every other item against it), the end of a pass of    *)
(* its while loop, or, in resizeHeight, one iteration of the for loop of    *)
(* the innermost pushDown that is running.                                  *)

MaxPasses == 6

MaxDepth == 6

CascadeLayouts ==
  SampleLayouts \cup StartLayouts(1) \cup StartLayouts(2) \cup StartLayouts(3)

(* An iteration that pushes the item to the right of the resized item and *)
(* the items it then stands on to its left, as the left cascade does      *)
widthCascadeItem_pushesBack(result, resized, i, changed) ==
  LET item == result[i]
      hit == /\ vOverlaps(resized, item)
             /\ resized.x + resized.width > item.x
             /\ item.x + item.width > resized.x
      newX == resized.x + resized.width
      moved == hit /\ newX # item.x
      r1 == IF moved THEN [result EXCEPT ![i].x = newX] ELSE result
  IN  leftCascadeOthers(r1, i, 1, changed \/ moved)

widthCascadeItem(result, resized, i, changed) ==
  LET item == result[i]
      hit == /\ vOverlaps(resized, item)
             /\ resized.x + resized.width > item.x
             /\ item.x + item.width > resized.x
      newX == resized.x + resized.width
      moved == hit /\ newX # item.x
      r1 == IF moved THEN [result EXCEPT ![i].x = newX] ELSE result
  IN  widthCascadeOthers(r1, i, 1, changed \/ moved)

leftCascadeItem(result, resized, i, changed) ==
  LET item == result[i]
      hit == /\ vOverlaps(resized, item)
             /\ resized.x < item.x + item.width
             /\ item.x < resized.x + resized.width
      newItemX == resized.x - item.width
      moved == hit /\ newItemX # item.x
      r1 == IF moved THEN [result EXCEPT ![i].x = newItemX] ELSE result
  IN  leftCascadeOthers(r1, i, 1, changed \/ moved)

(* The call in progress: the list it was made on, the resized item, the   *)
(* working list, the position in the for loop, the changed flag and the   *)
(* count of passes of a width cascade, the frames and the pushed set of   *)
(* pushDown, the working list as it was before the last step, the ids    *)
(* whose y was written, in the order of the writes, and the returned list *)
(* once the call is done                                                 *)
NoResize ==
  [phase |-> "none", op |-> "", id |-> "", request |-> 0,
   before |-> <<>>, resized |-> undefined, working |-> <<>>,
   i |-> 0, changed |-> FALSE, passes |-> 0,
   stack |-> <<>>, pushed |-> {}, previous |-> <<>>, written |-> <<>>,
   result |-> <<>>]

InitCascade ==
  /\ items \in CascadeLayouts
  /\ idCounter = 100
  /\ last = NoResize

Return(call, result) ==
  [call EXCEPT !.phase = "done", !.result = result]

(* The call on entry, before the resized item is built *)
Entered(op, id, request) ==
  [NoResize EXCEPT !.op = op, !.id = id, !.request = request,
                   !.before = items]

StartWidth(id, newWidth) ==
  /\ last.phase = "none"
  /\ LET comp == find(items, id)
         clamped == Max(1, Min(newWidth, GRID_COLUMNS))
         others == without(items, id)
         resized == [comp EXCEPT !.width = clamped]
         call == [Entered("resizeWidth", id, newWidth) EXCEPT
                    !.resized = resized]
     IN  last' =
           IF ~ has(items, id)
           THEN Return(Entered("resizeWidth", id, newWidth), items)
           ELSE IF canFit(others, comp.x, comp.y, clamped, comp.height,
                          undefined)
           THEN Return(call, Append(others, resized))
           ELSE [call EXCEPT !.phase = "loop",
                             !.working = sortByX(others, 1),
                             !.previous = sortByX(others, 1),
                             !.i = 1, !.passes = 1]
  /\ UNCHANGED <<items, idCounter>>

StartLeftEdge(id, newX) ==
  /\ last.phase = "none"
  /\ LET comp == find(items, id)
         clampedX == Max(0, Min(newX, comp.x + comp.width - 1))
         newWidth == comp.x + comp.width - clampedX
         others == without(items, id)
         resized == [comp EXCEPT !.x = clampedX, !.width = newWidth]
         call == [Entered("resizeLeftEdge", id, newX) EXCEPT
                    !.resized = resized]
     IN  last' =
           IF ~ has(items, id)
           THEN Return(Entered("resizeLeftEdge", id, newX), items)
           ELSE IF canFit(others, clampedX, comp.y, newWidth, comp.height,
                          undefined)
           THEN Return(call, Append(others, resized))
           ELSE [call EXCEPT !.phase = "loop",
                             !.working = sortByX(others, -1),
                             !.previous = sortByX(others, -1),
                             !.i = 1, !.passes = 1]
  /\ UNCHANGED <<items, idCounter>>

(* One iteration of the for loop of a width cascade *)
CascadeItem ==
  /\ last.phase = "loop"
  /\ last.i <= Len(last.working)
  /\ LET s == IF last.op = "resizeWidth"
              THEN widthCascadeItem(last.working, last.resized, last.i,
                                    last.changed)
              ELSE leftCascadeItem(last.working, last.resized, last.i,
                                   last.changed)
     IN  last' = [last EXCEPT !.previous = last.working,
                              !.working = s.result,
                              !.changed = s.changed,
                              !.i = @ + 1]
  /\ UNCHANGED <<items, idCounter>>

(* The for loop is through: another pass if anything changed, else the *)
(* bounds test and the return                                          *)
CascadePassEnd ==
  /\ last.phase = "loop"
  /\ last.i > Len(last.working)
  /\ last.changed => last.passes < MaxPasses
  /\ LET dir == IF last.op = "resizeWidth" THEN 1 ELSE -1
         out == IF last.op = "resizeWidth"
                THEN \E k \in 1..Len(last.working) :
                       last.working[k].x + last.working[k].width
                         > GRID_COLUMNS
                ELSE \E k \in 1..Len(last.working) : last.working[k].x < 0
     IN  last' =
           IF last.changed
           THEN [last EXCEPT !.working = sortByX(last.working, dir),
                             !.previous = sortByX(last.working, dir),
                             !.i = 1, !.changed = FALSE, !.passes = @ + 1]
           ELSE IF out THEN Return(last, last.before)
           ELSE Return(last, Append(last.working, last.resized))
  /\ UNCHANGED <<items, idCounter>>

(* A running pushDown: its arguments and the position of its for loop *)
Frame(srcX, srcWidth, oldBottom, newBottom) ==
  [srcX |-> srcX, srcWidth |-> srcWidth,
   oldBottom |-> oldBottom, newBottom |-> newBottom, k |-> 1]

StartHeight(id, newHeight) ==
  /\ last.phase = "none"
  /\ LET comp == find(items, id)
         clamped == Max(1, Min(newHeight, MAX_COMPONENT_HEIGHT))
         others == without(items, id)
         resized == [comp EXCEPT !.height = clamped]
         call == [Entered("resizeHeight", id, newHeight) EXCEPT
                    !.resized = resized]
     IN  last' =
           IF ~ has(items, id)
           THEN Return(Entered("resizeHeight", id, newHeight), items)
           ELSE IF canFit(others, comp.x, comp.y, comp.width, clamped,
                          undefined)
           THEN Return(call, Append(others, resized))
           ELSE IF clamped <= comp.height
           THEN Return(call, Append(others, resized))
           ELSE [call EXCEPT !.phase = "push",
                             !.working = others, !.previous = others,
                             !.stack = <<Frame(comp.x, comp.width,
                                               comp.y + comp.height,
                                               comp.y + clamped)>>]
  /\ UNCHANGED <<items, idCounter>>

(* pushDown without the set of the ids it has pushed *)
pushTarget_noPushedSet(f, item, pushed) ==
  LET delta == f.newBottom - f.oldBottom
      hOverlap == f.srcX < item.x + item.width /\ item.x < f.srcX + f.srcWidth
  IN  IF ~ hOverlap THEN -1
      ELSE IF item.y >= f.oldBottom /\ item.y < f.newBottom THEN f.newBottom
      ELSE IF item.y >= f.oldBottom THEN item.y + delta
      ELSE IF item.y < f.newBottom /\ item.y + item.height > f.oldBottom
           THEN f.newBottom
      ELSE -1

(* Where the for loop of a pushDown writes its item, or -1 where it *)
(* leaves the item alone                                            *)
pushTarget(f, item, pushed) ==
  LET delta == f.newBottom - f.oldBottom
      hOverlap == f.srcX < item.x + item.width /\ item.x < f.srcX + f.srcWidth
  IN  IF item.componentId \in pushed THEN -1
      ELSE IF ~ hOverlap THEN -1
      ELSE IF item.y >= f.oldBottom /\ item.y < f.newBottom THEN f.newBottom
      ELSE IF item.y >= f.oldBottom THEN item.y + delta
      ELSE IF item.y < f.newBottom /\ item.y + item.height > f.oldBottom
           THEN f.newBottom
      ELSE -1

(* One iteration of the for loop of the innermost running pushDown: the *)
(* item is skipped, or written and pushDown is entered for it           *)
PushItem ==
  /\ last.phase = "push"
  /\ LET d == Len(last.stack)
         f == last.stack[d]
     IN  /\ f.newBottom - f.oldBottom > 0
         /\ f.k <= Len(last.working)
         /\ LET item == last.working[f.k]
                newY == pushTarget(f, item, last.pushed)
            IN  IF newY = -1
                THEN last' = [last EXCEPT !.stack[d].k = @ + 1,
                                          !.previous = last.working]
                ELSE /\ d < MaxDepth
                     /\ last' =
                          [last EXCEPT
                             !.previous = last.working,
                             !.working[f.k].y = newY,
                             !.pushed = @ \cup {item.componentId},
                             !.written = Append(@, item.componentId),
                             !.stack =
                               Append([last.stack EXCEPT ![d].k = @ + 1],
                                      Frame(item.x, item.width,
                                            item.y + item.height,
                                            newY + item.height))]
  /\ UNCHANGED <<items, idCounter>>

(* The innermost pushDown returns; resizeHeight returns after the first *)
PushReturn ==
  /\ last.phase = "push"
  /\ LET d == Len(last.stack)
         f == last.stack[d]
     IN  /\ \/ f.newBottom - f.oldBottom <= 0
            \/ f.k > Len(last.working)
         /\ last' =
              IF d = 1
              THEN Return([last EXCEPT !.stack = <<>>,
                                       !.previous = last.working],
                          Append(last.working, last.resized))
              ELSE [last EXCEPT !.stack = SubSeq(last.stack, 1, d - 1),
                                !.previous = last.working]
  /\ UNCHANGED <<items, idCounter>>

NextCascade ==
  \/ \E id \in Ids(items) \cup {AbsentId}, w \in WidthRequests :
       StartWidth(id, w)
  \/ \E id \in Ids(items) \cup {AbsentId}, x \in LeftRequests :
       StartLeftEdge(id, x)
  \/ \E id \in Ids(items) \cup {AbsentId}, h \in HeightRequests :
       StartHeight(id, h)
  \/ CascadeItem
  \/ CascadePassEnd
  \/ PushItem
  \/ PushReturn

SpecCascade ==
  InitCascade /\ [][NextCascade]_vars /\ WF_vars(NextCascade)

(* C25: every resize call returns: the while loop of resizeWidth and of   *)
(* resizeLeftEdge runs finitely many passes and the recursion of pushDown *)
(* ends, whatever valid layout, id and request the call is made with      *)
C25_ResizeReturns == <>(last.phase = "done")

C25_Witness ==
  /\ last.phase = "done"
  /\ last.op = "resizeWidth"
  /\ last.passes >= 3

(* No id is written twice *)
WrittenOnce ==
  \A a, b \in 1..Len(last.written) :
    last.written[a] = last.written[b] => a = b

(* C26: while a resize call runs, its writes go one way.  In resizeHeight *)
(* the y of an item is written at most once and never decreases; in       *)
(* resizeWidth no x of the working list ever decreases; in resizeLeftEdge *)
(* no x of the working list ever increases                                *)
C26_MovesOneWay ==
  /\ WrittenOnce
  /\ \A a \in 1..Len(last.working), b \in 1..Len(last.previous) :
       last.working[a].componentId = last.previous[b].componentId =>
         /\ last.op = "resizeHeight" =>
              /\ last.working[a].y >= last.previous[b].y
              /\ last.working[a].x = last.previous[b].x
         /\ last.op = "resizeWidth" =>
              /\ last.working[a].x >= last.previous[b].x
              /\ last.working[a].y = last.previous[b].y
         /\ last.op = "resizeLeftEdge" =>
              /\ last.working[a].x <= last.previous[b].x
              /\ last.working[a].y = last.previous[b].y

C26_Witness ==
  /\ last.phase = "done"
  /\ last.op = "resizeHeight"
  /\ Len(last.written) >= 2

(* The rows an item of the input went down by, and the rows the resized *)
(* item grew by                                                         *)
Shift(m) == find(last.result, m).y - find(last.before, m).y

Growth == Resized.height - Target.height

HeightPushed ==
  /\ Returned("resizeHeight")
  /\ last.path = "pushed"
  /\ validateLayout(last.before) = <<>>

(* C27 as stated: when resizeHeight grows an item and the new footprint *)
(* collides, every item that is moved goes down by the rows the item    *)
(* grew by, so two moved items keep their vertical distance             *)
C27_SameShift ==
  HeightPushed => \A m \in MovedIds : Shift(m) = Growth

(* C27 amended: when resizeHeight grows an item of a valid layout and   *)
(* the new footprint collides, some item is moved, and every item that  *)
(* is moved keeps its x and goes down by at least one row and by no     *)
(* more than the rows the item grew by                                  *)
C27_ShiftWithinGrowth ==
  HeightPushed =>
    /\ MovedIds # {}
    /\ \A m \in MovedIds :
         /\ Shift(m) >= 1
         /\ Shift(m) <= Growth
         /\ find(last.result, m).x = find(last.before, m).x

(* Two moved items, one of which went down by less than the growth *)
C27_Witness ==
  /\ HeightPushed
  /\ \E m, n \in MovedIds :
       /\ m # n
       /\ Shift(m) < Growth
       /\ Shift(n) = Growth

----------------------------------------------------------------------------
(* migrateOldFormat: the row-based format, a list of rows of components, *)
(* converted to grid items.                                              *)

MaxRows == 3

MaxRowItems == 13

(* Row rowIdx of the old format with count components *)
OldRow(rowIdx, count) ==
  [items |-> [i \in 1..count |->
                [componentId |-> "r" \o ToString(rowIdx) \o "c" \o ToString(i),
                 componentType |-> "KPI"]]]

(* The old formats of n rows *)
OldFormats(n) ==
  {[r \in 1..n |-> OldRow(r - 1, counts[r])] :
     counts \in [1..n -> 0..MaxRowItems]}

RECURSIVE migrateRow(_, _, _, _)

(* A row whose last items, not its first, take the columns left over *)
migrateRow_extraLast(row, rowIdx, i, x) ==
  IF i >= Len(row) THEN <<>>
  ELSE LET count == Len(row)
           baseWidth == GRID_COLUMNS \div count
           remainder == GRID_COLUMNS % count
           w == baseWidth + (IF i >= count - remainder THEN 1 ELSE 0)
       IN  <<GridItem(row[i + 1].componentId, row[i + 1].componentType,
                      x, rowIdx, w, 1)>>
           \o migrateRow(row, rowIdx, i + 1, x + w)

(* The inner for loop from index i (counted from 0) with x columns taken *)
migrateRow(row, rowIdx, i, x) ==
  IF i >= Len(row) THEN <<>>
  ELSE LET count == Len(row)
           baseWidth == GRID_COLUMNS \div count
           remainder == GRID_COLUMNS % count
           w == baseWidth + (IF i < remainder THEN 1 ELSE 0)
       IN  <<GridItem(row[i + 1].componentId, row[i + 1].componentType,
                      x, rowIdx, w, 1)>>
           \o migrateRow(row, rowIdx, i + 1, x + w)

RECURSIVE migrateRows(_, _)
(* The outer for loop from row rowIdx (counted from 0) *)
migrateRows(rows, rowIdx) ==
  IF rowIdx >= Len(rows) THEN <<>>
  ELSE LET row == rows[rowIdx + 1].items
       IN  (IF Len(row) = 0 THEN <<>> ELSE migrateRow(row, rowIdx, 0, 0))
           \o migrateRows(rows, rowIdx + 1)

migrateOldFormat(rows) == migrateRows(rows, 0)

NoMigration(rows) == [phase |-> "old", rows |-> rows]

InitMigrate ==
  /\ items = <<>>
  /\ idCounter = 100
  /\ \E n \in 0..MaxRows :
       \E rows \in OldFormats(n) : last = NoMigration(rows)

Migrate ==
  /\ last.phase = "old"
  /\ items' = migrateOldFormat(last.rows)
  /\ last' = [last EXCEPT !.phase = "migrated"]
  /\ UNCHANGED idCounter

NextMigrate == Migrate

SpecMigrate == InitMigrate /\ [][NextMigrate]_vars

RECURSIVE ItemsBefore(_, _)
(* The number of components in the rows before row r (counted from 1) *)
ItemsBefore(rows, r) ==
  IF r <= 1 THEN 0
  ELSE ItemsBefore(rows, r - 1) + Len(rows[r - 1].items)

RECURSIVE SumWidths(_, _, _)
SumWidths(its, from, to) ==
  IF from > to THEN 0 ELSE its[from].width + SumWidths(its, from + 1, to)

(* C28: migrateOldFormat turns a row of n components, 1 <= n <= 12, into *)
(* n items in the order of the row, of height 1 and y the index of the   *)
(* row, whose widths sum to GRID_COLUMNS and differ by at most 1, the    *)
(* first GRID_COLUMNS mod n of them taking the extra column, and whose   *)
(* x run on from 0 without a gap; an empty row gives no item and leaves  *)
(* the y of the later rows as their index                                *)
C28_MigrateSplitsRows ==
  last.phase = "migrated" =>
    /\ Len(items) = ItemsBefore(last.rows, Len(last.rows) + 1)
    /\ \A r \in 1..Len(last.rows) :
         LET row == last.rows[r].items
             n == Len(row)
             off == ItemsBefore(last.rows, r)
         IN  /\ n = 0 => \A k \in 1..Len(items) : items[k].y # r - 1
             /\ (n >= 1 /\ n <= GRID_COLUMNS) =>
                  /\ SumWidths(items, off + 1, off + n) = GRID_COLUMNS
                  /\ items[off + 1].x = 0
                  /\ \A k \in 1..n :
                       LET item == items[off + k]
                       IN  /\ item.componentId = row[k].componentId
                           /\ item.componentType = row[k].componentType
                           /\ item.y = r - 1
                           /\ item.height = 1
                           /\ item.width >= 1
                           /\ item.width =
                                GRID_COLUMNS \div n
                                  + (IF k <= GRID_COLUMNS % n THEN 1 ELSE 0)
                           /\ k < n =>
                                items[off + k + 1].x = item.x + item.width
                  /\ \A j, k \in 1..n :
                       /\ items[off + j].width - items[off + k].width <= 1
                       /\ j < k =>
                            items[off + j].width >= items[off + k].width

(* A row of five after an empty row: widths 3, 3, 2, 2, 2 in row 1 *)
C28_Witness ==
  /\ last.phase = "migrated"
  /\ Len(last.rows) >= 2
  /\ Len(last.rows[1].items) = 0
  /\ Len(last.rows[2].items) = 5
  /\ items[1].y = 1
  /\ items[2].width = 3
  /\ items[3].width = 2
  /\ items[5].x = 10

----------------------------------------------------------------------------
(* The grid on a container that changes width: DashboardGrid measures the *)
(* container and sets isMobile; GridCell renders the remove button and    *)
(* the edge handles only when isMobile is false; the drop handler returns *)
(* at once when isMobile is true.  A drag of an edge handle is a          *)
(* mousedown on the handle, then mousemove and mouseup listeners on the   *)
(* window that were built at the mousedown.                               *)

MOBILE_BREAKPOINT_PX == 768

MaxEvents == 3

ContainerWidths == {600, 768, 960}

MobileDeltas == {-80, 160}

(* Where the pointer is when a drag is dropped, in pixels from the left *)
(* and from the top of the container                                   *)
DropRelXs == {40, 500}

DropRelYs == {200}

PaletteTypes == {"KPI", "Chart"}

(* The state of DashboardGrid and of the drag in progress, with the last *)
(* event, whether the grid was mobile when it came, and the items then   *)
NoEvent ==
  [containerWidth |-> 960, isMobile |-> FALSE,
   phase |-> "idle", op |-> "", id |-> "", startVal |-> 0, colPx |-> 0,
   handlerItems |-> <<>>,
   event |-> "", mobile |-> FALSE, before |-> <<>>, events |-> 0]

Event(name) ==
  [last EXCEPT !.event = name, !.mobile = last.isMobile,
               !.before = items, !.events = @ + 1]

InitMobile ==
  /\ items = INITIAL_ITEMS
  /\ idCounter = 100
  /\ last = NoEvent

(* The ResizeObserver callback *)
Measure(w) ==
  /\ last.events < MaxEvents
  /\ last' = [Event("measure") EXCEPT
                !.containerWidth = w,
                !.isMobile = w < MOBILE_BREAKPOINT_PX]
  /\ UNCHANGED <<items, idCounter>>

(* The remove button and the three edge handles are in the page *)
controlsRendered(isMobile) == ~ isMobile

(* mousedown on an edge handle *)
HandleDown(op, id) ==
  /\ last.events < MaxEvents
  /\ last.phase = "idle"
  /\ controlsRendered(last.isMobile)
  /\ LET item == find(items, id)
     IN  last' =
           IF last.isMobile THEN Event("down")
           ELSE [Event("down") EXCEPT
                   !.phase = "down", !.op = op, !.id = id,
                   !.startVal = CASE op = "resizeWidth" -> item.width
                                  [] op = "resizeLeftEdge" -> item.x
                                  [] op = "resizeHeight" -> item.height,
                   !.colPx = last.containerWidth \div GRID_COLUMNS,
                   !.handlerItems = items]
  /\ UNCHANGED <<items, idCounter>>

(* mousemove on the window while an edge handle is held *)
HandleMove(delta) ==
  /\ last.events < MaxEvents
  /\ last.phase = "down"
  /\ LET request ==
           CASE last.op = "resizeWidth" ->
                  Max(1, last.startVal + round(delta, last.colPx))
             [] last.op = "resizeLeftEdge" ->
                  last.startVal + round(delta, last.colPx)
             [] last.op = "resizeHeight" ->
                  Max(1, last.startVal + round(delta, CELL_HEIGHT_PX))
     IN  items' = resize(last.op, last.handlerItems, last.id, request)
  /\ last' = Event("move")
  /\ UNCHANGED idCounter

(* mouseup on the window: the listeners are removed *)
HandleUp ==
  /\ last.events < MaxEvents
  /\ last.phase = "down"
  /\ last' = [Event("up") EXCEPT !.phase = "idle"]
  /\ UNCHANGED <<items, idCounter>>

(* click on the remove button of an item *)
ClickRemove(id) ==
  /\ last.events < MaxEvents
  /\ last.phase = "idle"
  /\ controlsRendered(last.isMobile)
  /\ items' = layoutEngine_removeComponent(items, id)
  /\ last' = Event("remove")
  /\ UNCHANGED idCounter

(* The drop zones that are shown while something is dragged.  A zone is *)
(* a rectangle of cells with a label.                                   *)
DropZone(x, y, width, height, label) ==
  [x |-> x, y |-> y, width |-> width, height |-> height, label |-> label]

RECURSIVE bandRows(_, _, _)
(* The keys of rowBands in the order the Map received them: the rows of *)
(* the items, the items taken in the order of the list                  *)
bandRows(its, k, rows) ==
  IF k > Len(its) THEN rows
  ELSE LET fresh(r) == \A e \in 1..Len(rows) : rows[e] # r
           own == [r \in 1..its[k].height |-> its[k].y + r - 1]
       IN  bandRows(its, k + 1, rows \o SelectSeq(own, fresh))

(* [...new Map(comps.map(c => [c.componentId, c])).values()]: an id has *)
(* the place of its first entry and the value of its last               *)
mapById(its, idx) ==
  LET first(q) == \A e \in 1..(q - 1) :
                    its[idx[e]].componentId # its[idx[q]].componentId
      kept == SelectSeq([q \in 1..Len(idx) |-> q], first)
      lastOf(q) ==
        CHOOSE e \in q..Len(idx) :
          /\ its[idx[e]].componentId = its[idx[q]].componentId
          /\ \A f \in (e + 1)..Len(idx) :
               its[idx[f]].componentId # its[idx[q]].componentId
  IN  [p \in 1..Len(kept) |-> idx[lastOf(kept[p])]]

(* The zones of one band: between neighbours, left edge, right edge *)
bandZones(its, sorted) ==
  IF ~ (Len(sorted) < GRID_COLUMNS) THEN <<>>
  ELSE
    LET y == its[sorted[1]].y
        height == CHOOSE h \in {its[sorted[p]].height : p \in 1..Len(sorted)} :
                    \A p \in 1..Len(sorted) : its[sorted[p]].height <= h
        between(i) ==
          LET left == its[sorted[i]]
              right == its[sorted[i + 1]]
              midX == left.x + left.width
          IN  DropZone(midX, y, Max(1, right.x - midX), height,
                       "Between " \o left.componentType
                         \o " & " \o right.componentType)
        last_ == its[sorted[Len(sorted)]]
    IN  [i \in 1..(Len(sorted) - 1) |-> between(i)]
          \o (IF its[sorted[1]].x = 0
              THEN <<DropZone(0, y, 1, height, "Left edge")>> ELSE <<>>)
          \o (IF last_.x + last_.width = GRID_COLUMNS
              THEN <<DropZone(GRID_COLUMNS - 1, y, 1, height, "Right edge")>>
              ELSE <<>>)

RECURSIVE rowBandZones(_, _, _, _, _)
(* The loop over rowBands; a band whose items were seen is passed over *)
rowBandZones(its, rows, pos, processedRows, zones) ==
  IF pos > Len(rows) THEN zones
  ELSE LET sorted == sortBy("x", its,
                            mapById(its, componentsAtY(its, rows[pos])),
                            undefined)
           key == [p \in 1..Len(sorted) |-> its[sorted[p]].componentId]
       IN  IF key \in processedRows
           THEN rowBandZones(its, rows, pos + 1, processedRows, zones)
           ELSE rowBandZones(its, rows, pos + 1, processedRows \cup {key},
                             zones \o bandZones(its, sorted))

(* A "New row" zone under each group of occupied rows but the last *)
newRowZones(occupiedYs, dragHeight) ==
  LET ends(i) == occupiedYs[i + 1] # occupiedYs[i] + 1
      lasts == SelectSeq([i \in 1..(Len(occupiedYs) - 1) |-> i], ends)
  IN  [g \in 1..Len(lasts) |->
         DropZone(0, occupiedYs[lasts[g]] + 1, GRID_COLUMNS, dragHeight,
                  "New row")]

computeDropZones(its, dragWidth, dragHeight) ==
  rowBandZones(its, bandRows(its, 1, <<>>), 1, {}, <<>>)
    \o newRowZones(getOccupiedYs(its), dragHeight)
    \o <<DropZone(0, getMaxRow(its), GRID_COLUMNS, dragHeight, "Below all")>>

RECURSIVE hitTestFrom(_, _, _, _, _, _, _)
(* The loop of hitTestZone from zone i (counted from 1); bestIdx is     *)
(* counted from 0 as in the code and is -1 while bestDist is Infinity.  *)
(* The distances are four times those of the code: the centre of a zone *)
(* can lie on a half pixel.                                             *)
hitTestFrom(zones, relX, relY, columnPx, i, bestIdx, bestDist) ==
  IF i > Len(zones) THEN bestIdx
  ELSE LET z == zones[i]
           left == z.x * columnPx
           top == z.y * CELL_HEIGHT_PX
           right == left + z.width * columnPx
           bottom == top + z.height * CELL_HEIGHT_PX
           dx == 2 * relX - (left + right)
           dy == 2 * relY - (top + bottom)
           dist == dx * dx + dy * dy
       IN  IF relX >= left /\ relX < right /\ relY >= top /\ relY < bottom
           THEN i - 1
           ELSE IF bestIdx = -1 \/ dist < bestDist
                THEN hitTestFrom(zones, relX, relY, columnPx, i + 1,
                                 i - 1, dist)
                ELSE hitTestFrom(zones, relX, relY, columnPx, i + 1,
                                 bestIdx, bestDist)

(* The zone the pointer is over or, when it is over none, the zone with *)
(* the nearest centre, the first of them when several are as near       *)
hitTestZone(zones, relX, relY, columnPx) ==
  hitTestFrom(zones, relX, relY, columnPx, 1, -1, 0)

(* dropX and dropY: the corner of the zone, or the cell under the *)
(* pointer when there is no zone                                  *)
dropCell(zones, relX, relY, columnPx) ==
  LET zoneIdx == hitTestZone(zones, relX, relY, columnPx)
  IN  IF zoneIdx >= 0
      THEN [x |-> zones[zoneIdx + 1].x, y |-> zones[zoneIdx + 1].y]
      ELSE [x |-> Max(0, Min(relX \div columnPx, GRID_COLUMNS - 1)),
            y |-> Max(0, relY \div CELL_HEIGHT_PX)]

(* A palette drop that numbers the new item after the length of the list *)
DropPalette_countsItems(type, relX, relY) ==
  /\ last.events < MaxEvents
  /\ last.phase = "idle"
  /\ last' = Event("drop")
  /\ IF last.isMobile THEN UNCHANGED <<items, idCounter>>
     ELSE LET at == dropCell(computeDropZones(items,
                                              DEFAULT_SIZES[type].width,
                                              DEFAULT_SIZES[type].height),
                             relX, relY,
                             last.containerWidth \div GRID_COLUMNS)
              newItem == GridItem(NewId(101 + Len(items)), type, at.x, at.y,
                                  DEFAULT_SIZES[type].width,
                                  DEFAULT_SIZES[type].height)
              result == layoutEngine_addComponent(items, newItem)
          IN  /\ idCounter' = idCounter + 1
              /\ items' = IF result = null THEN items ELSE result

(* A palette item is dropped with the pointer at (relX, relY): it goes *)
(* to the corner of the drop zone under or nearest the pointer.  The   *)
(* zones are those of the last render of the drag, computed from the   *)
(* items and the size of the dragged thing.                            *)
DropPalette(type, relX, relY) ==
  /\ last.events < MaxEvents
  /\ last.phase = "idle"
  /\ last' = Event("drop")
  /\ IF last.isMobile THEN UNCHANGED <<items, idCounter>>
     ELSE LET at == dropCell(computeDropZones(items,
                                              DEFAULT_SIZES[type].width,
                                              DEFAULT_SIZES[type].height),
                             relX, relY,
                             last.containerWidth \div GRID_COLUMNS)
              newItem == GridItem(NewId(idCounter + 1), type, at.x, at.y,
                                  DEFAULT_SIZES[type].width,
                                  DEFAULT_SIZES[type].height)
              result == layoutEngine_addComponent(items, newItem)
          IN  /\ idCounter' = idCounter + 1
              /\ items' = IF result = null THEN items ELSE result

(* An item of the grid is dropped with the pointer at (relX, relY); the *)
(* zones are those of the other items                                   *)
DropItem(id, relX, relY) ==
  /\ last.events < MaxEvents
  /\ last.phase = "idle"
  /\ last' = Event("drop")
  /\ UNCHANGED idCounter
  /\ IF last.isMobile THEN UNCHANGED items
     ELSE LET comp == find(items, id)
              zoneItems == without(items, id)
              at == dropCell(computeDropZones(zoneItems, comp.width,
                                              comp.height),
                             relX, relY,
                             last.containerWidth \div GRID_COLUMNS)
              moved == [comp EXCEPT !.x = at.x, !.y = at.y]
              result == layoutEngine_addComponent(zoneItems, moved)
          IN  items' = IF result = null THEN items ELSE result

NextMobile ==
  \/ \E w \in ContainerWidths : Measure(w)
  \/ \E op \in {"resizeWidth", "resizeLeftEdge", "resizeHeight"},
        id \in Ids(items) : HandleDown(op, id)
  \/ \E delta \in MobileDeltas : HandleMove(delta)
  \/ HandleUp
  \/ \E id \in Ids(items) : ClickRemove(id)
  \/ \E type \in PaletteTypes, relX \in DropRelXs, relY \in DropRelYs :
       DropPalette(type, relX, relY)
  \/ \E id \in Ids(items), relX \in DropRelXs, relY \in DropRelYs :
       DropItem(id, relX, relY)

SpecMobile == InitMobile /\ [][NextMobile]_vars

(* C29: while the grid is in mobile mode no drop, no move of a held edge *)
(* handle and no click on a remove button changes the items, a move of a *)
(* handle that was taken before the grid became mobile included          *)
C29_MobileReadOnly ==
  (last.event \in {"drop", "move", "remove"} /\ last.mobile)
    => items = last.before

----------------------------------------------------------------------------
(* The lists stabilize is called on: items of width and height at least *)
(* 1, at any place, overlapping or not                                  *)
MaxPacked == 3

PackedShapes ==
  {<<0, 0, 4, 1>>, <<4, 0, 4, 2>>, <<0, 1, 8, 1>>, <<6, 0, 6, 1>>,
   <<6, 1, 13, 1>>, <<0, 2, 12, 3>>, <<0, 0, 6, 2>>, <<9, 1, 2, 2>>}

PackedItem(k, s) ==
  GridItem("p" \o ToString(k), "KPI", s[1], s[2], s[3], s[4])

PackedLists ==
  UNION {{[k \in 1..n |-> PackedItem(k, shapes[k])] :
            shapes \in [1..n -> PackedShapes]} : n \in 0..MaxPacked}

NoStabilize == [phase |-> "given", input |-> <<>>]

InitStabilize ==
  /\ items \in PackedLists \cup {INITIAL_ITEMS_input}
  /\ idCounter = 100
  /\ last = NoStabilize

Stabilize ==
  /\ last.phase = "given"
  /\ items' = stabilize(items, undefined)
  /\ last' = [phase |-> "stabilized", input |-> items]
  /\ UNCHANGED idCounter

NextStabilize == Stabilize

SpecStabilize == InitStabilize /\ [][NextStabilize]_vars

(* C30: for a list of items of width and height at least 1, the layout *)
(* stabilize returns has no two overlapping items, and every item of   *)
(* it has x >= 0 and x + width <= GRID_COLUMNS                         *)
C30_StabilizeValid ==
  last.phase = "stabilized" => NoOverlap(items) /\ InColumns(items)

(* A list with overlapping items, one of them wider than the grid, that *)
(* stabilize returned with a component moved to a lower row             *)
C30_Witness ==
  /\ last.phase = "stabilized"
  /\ ~ NoOverlap(last.input)
  /\ ~ InColumns(last.input)
  /\ Len(items) = 3
  /\ \E k \in 1..Len(last.input) :
       find(items, last.input[k].componentId).y > last.input[k].y

----------------------------------------------------------------------------
(* Which items a call returns *)

(* How many items of the list carry the id *)
Occurrences(its, id) ==
  Cardinality({k \in 1..Len(its) : its[k].componentId = id})

(* The two lists hold the same ids, each as often, with the same types *)
SameItemSet(before, after) ==
  /\ Len(after) = Len(before)
  /\ \A k \in 1..Len(before) :
       /\ Occurrences(after, before[k].componentId)
            = Occurrences(before, before[k].componentId)
       /\ \A j \in 1..Len(after) :
            after[j].componentId = before[k].componentId
              => after[j].componentType = before[k].componentType

(* C31: repositionComponent, resizeWidth, resizeLeftEdge and resizeHeight *)
(* return a layout with the same componentIds as their input, each as     *)
(* often, with unchanged componentType; a successful addComponent returns *)
(* the input items unchanged, followed by the new item alone; and         *)
(* removeComponent returns the input items whose id is not the given id.  *)
C31_ItemSetPreserved ==
  last.phase = "returned" =>
    /\ (last.op \in {"resizeWidth", "resizeLeftEdge", "resizeHeight"}
          \/ (last.op = "reposition" /\ last.result # null))
         => SameItemSet(last.before, last.result)
    /\ (last.op = "add" /\ last.result # null)
         => /\ Len(last.result) = Len(last.before) + 1
            /\ SubSeq(last.result, 1, Len(last.before)) = last.before
            /\ Placed.componentId = last.id
            /\ ~ has(last.before, last.id)
            /\ Placed.componentType \in ComponentTypes
            /\ Placed.width = last.width
            /\ Placed.height = last.height
    /\ last.op = "remove"
         => /\ ~ has(last.result, last.id)
            /\ Len(last.result)
                 = Len(last.before) - Occurrences(last.before, last.id)
            /\ \A k \in 1..Len(last.result) :
                 last.result[k]
                   = last.before[IF RemovedAt > 0 /\ k >= RemovedAt
                                 THEN k + 1 ELSE k]

(* A resize that moved other items returned a list in another order *)
C31_Witness ==
  /\ Returned("resizeHeight")
  /\ last.path = "pushed"
  /\ Len(last.before) >= 3
  /\ last.before[Len(last.before)].componentId # last.id
  /\ \E k \in 1..Len(last.result) :
       /\ last.result[k].componentId # last.id
       /\ last.result[k] # find(last.before, last.result[k].componentId)
  /\ SameItemSet(last.before, last.result)
----------------------------------------------------------------------------
(* The ids of the items in a session of the page *)

(* C32: in every layout the page reaches from the sample dashboard by     *)
(* palette drops, moves, resizes and removals the componentIds are        *)
(* pairwise distinct; the id of a palette drop is made from a counter     *)
(* that only grows, so it is above every comp- id made before             *)
C32_UniqueIds ==
  /\ \A i, j \in 1..Len(items) :
       i # j => items[i].componentId # items[j].componentId
  /\ idCounter >= 100
  /\ \A k \in 1..Len(items) :
       items[k].componentId \in
         Ids(INITIAL_ITEMS_input) \cup {NewId(n) : n \in 101..idCounter}

(* An item was removed and two palette drops were placed after it *)
C32_Witness ==
  /\ last.events = MaxEvents
  /\ idCounter >= 102
  /\ has(items, NewId(idCounter))
  /\ has(items, NewId(idCounter - 1))
  /\ Len(items) < Len(INITIAL_ITEMS_input) + 2
----------------------------------------------------------------------------
(* Calls followed by the call that undoes them, and resize calls for an   *)
(* id the layout does not hold, on every start layout and sample layout   *)

(* addComponent for a new id; the list it returned becomes the layout *)
AddNew(type, x, y) ==
  /\ Ready
  /\ LET newItem == GridItem(NewId(idCounter + 1), type, x, y,
                             DEFAULT_SIZES[type].width,
                             DEFAULT_SIZES[type].height)
         result == addComponent(items, newItem)
     IN  /\ last' = [Call("add", newItem.componentId, x, y,
                          newItem.width, newItem.height,
                          items, result, nullCell, "")
                       EXCEPT !.phase = "added"]
         /\ items' = IF result = null THEN items ELSE result
  /\ idCounter' = idCounter + 1

(* removeComponent of the id that the last call added *)
RemoveAdded ==
  /\ last.phase = "added"
  /\ last.result # null
  /\ items' = removeComponent(items, last.id)
  /\ last' = [last EXCEPT !.phase = "removed"]
  /\ UNCHANGED idCounter

(* A resize call for an id that is not in the layout *)
ResizeUnknown(op, request) ==
  CASE op = "resizeWidth" -> ResizeWidth(AbsentId, request)
    [] op = "resizeLeftEdge" -> ResizeLeftEdge(AbsentId, request)
    [] op = "resizeHeight" -> ResizeHeight(AbsentId, request)

NextAlgebra ==
  \/ \E type \in ComponentTypes, x \in DropXs, y \in DropYs :
       AddNew(type, x, y)
  \/ RemoveAdded
  \/ \E op \in {"resizeWidth", "resizeLeftEdge", "resizeHeight"},
        request \in WidthRequests \cup LeftRequests \cup HeightRequests :
       ResizeUnknown(op, request)

SpecAlgebra == Init /\ [][NextAlgebra]_vars

(* C33: when addComponent(L, n) succeeds for an n whose id does not occur *)
(* in L, removeComponent(addComponent(L, n), n.componentId) is L: the     *)
(* same items in the same order with the same field values.               *)
C33_AddRemoveRoundTrip ==
  /\ last.phase = "added" => ~ has(last.before, last.id)
  /\ last.phase = "removed" => items = last.before

(* The new item was dropped on an occupied place and landed below it *)
C33_Witness ==
  /\ last.phase = "removed"
  /\ Len(last.before) >= 2
  /\ Placed.y > last.y
  /\ items = last.before

(* C37: resizeWidth, resizeLeftEdge and resizeHeight called with an id    *)
(* that is not in the layout return their input, the same items in the    *)
(* same order with the same values, whatever size is asked for; the list  *)
(* the caller passed is as it was.                                        *)
C37_UnknownIdReturnsInput ==
  (last.phase = "returned" /\ ~ has(last.before, last.id)
     /\ last.op \in {"resizeWidth", "resizeLeftEdge", "resizeHeight"})
    => /\ last.result = last.before
       /\ last.input = last.before
       /\ items = last.before
       /\ last.path = "absent"

(* A grow request that would collide had the id been that of an item *)
C37_Witness ==
  /\ Returned("resizeHeight")
  /\ last.id = AbsentId
  /\ last.height = 9
  /\ Len(last.before) >= 3
  /\ last.result = last.before
----------------------------------------------------------------------------
(* resizeHeight on a list and on the same items listed in another order *)

(* The orders of a list of n items *)
Orders(n) ==
  {p \in [1..n -> 1..n] : \A i, j \in 1..n : i # j => p[i] # p[j]}

Reordered(its, p) == [k \in 1..Len(its) |-> its[p[k]]]

(* One resizeHeight call, and the same call on the reordered list *)
ResizeHeightReordered(id, newHeight, p) ==
  /\ Ready
  /\ last' = [phase |-> "compared", op |-> "resizeHeight", id |-> id,
              height |-> newHeight, before |-> items,
              reordered |-> Reordered(items, p),
              result |-> resizeHeight(items, id, newHeight),
              other |-> resizeHeight(Reordered(items, p), id, newHeight)]
  /\ items' = resizeHeight(items, id, newHeight)
  /\ UNCHANGED idCounter

NextReordered ==
  \E id \in Ids(items), h \in HeightRequests, p \in Orders(Len(items)) :
    ResizeHeightReordered(id, h, p)

SpecReordered == Init /\ [][NextReordered]_vars

Geometry(its, id) ==
  LET item == find(its, id)
  IN  <<item.x, item.y, item.width, item.height>>

(* C34: the x, y, width and height that resizeHeight gives to each id do *)
(* not depend on the order of the items in the list it is called on: on  *)
(* two lists of the same items, the same id and the same requested       *)
(* height give every item the same geometry.                             *)
C34_HeightOrderIndependent ==
  last.phase = "compared"
    => \A id \in Ids(last.before) :
         Geometry(last.result, id) = Geometry(last.other, id)
----------------------------------------------------------------------------
(* C35: in the result of a resizeWidth or resizeLeftEdge, two items other *)
(* than the resized one that shared a row, one entirely to the left of    *)
(* the other, are still in that order: the one that was on the left ends  *)
(* at or before the left edge of the other.                               *)
C35_NoLeapfrog ==
  (last.phase = "returned" /\ last.op \in {"resizeWidth", "resizeLeftEdge"})
    => \A i, j \in 1..Len(last.before) :
         LET a == last.before[i]
             b == last.before[j]
         IN  (/\ a.componentId # last.id
              /\ b.componentId # last.id
              /\ vOverlaps(a, b)
              /\ a.x + a.width <= b.x)
               => find(last.result, a.componentId).x
                    + find(last.result, a.componentId).width
                    <= find(last.result, b.componentId).x
----------------------------------------------------------------------------
(* Layouts reached by engine calls from the empty layout, and the call    *)
(* that repositions an item of such a layout onto its own place           *)

MaxSteps == 4

ReachXs == {0, 3}

ReachYs == {0, 12}

ReachHeights == {3}

NoStep ==
  [op |-> "", id |-> "", before |-> <<>>, result |-> <<>>, steps |-> 0]

Step(op, id, result) ==
  [op |-> op, id |-> id, before |-> items, result |-> result,
   steps |-> last.steps + 1]

InitReach ==
  /\ items = <<>>
  /\ idCounter = 100
  /\ last = NoStep

ReachAdd(type, x, y) ==
  /\ last.steps < MaxSteps
  /\ LET newItem == GridItem(NewId(idCounter + 1), type, x, y,
                             DEFAULT_SIZES[type].width,
                             DEFAULT_SIZES[type].height)
         result == addComponent(items, newItem)
     IN  /\ last' = Step("add", newItem.componentId, result)
         /\ items' = IF result = null THEN items ELSE result
  /\ idCounter' = idCounter + 1

ReachRemove(id) ==
  /\ last.steps < MaxSteps
  /\ last' = Step("remove", id, removeComponent(items, id))
  /\ items' = removeComponent(items, id)
  /\ UNCHANGED idCounter

ReachResizeHeight(id, newHeight) ==
  /\ last.steps < MaxSteps
  /\ last' = Step("resizeHeight", id, resizeHeight(items, id, newHeight))
  /\ items' = resizeHeight(items, id, newHeight)
  /\ UNCHANGED idCounter

(* repositionComponent of an item of a valid layout to its own x and y *)
RepositionSelf(id) ==
  /\ last.steps < MaxSteps
  /\ validateLayout(items) = <<>>
  /\ LET comp == find(items, id)
         result == repositionComponent(items, id, comp.x, comp.y)
     IN  /\ last' = Step("repositionSelf", id, result)
         /\ items' = IF result = null THEN items ELSE result
  /\ UNCHANGED idCounter

NextReach ==
  \/ \E type \in PaletteTypes, x \in ReachXs, y \in ReachYs :
       ReachAdd(type, x, y)
  \/ \E id \in Ids(items) : ReachRemove(id)
  \/ \E id \in Ids(items), h \in ReachHeights : ReachResizeHeight(id, h)
  \/ \E id \in Ids(items) : RepositionSelf(id)

SpecReach == InitReach /\ [][NextReach]_vars

(* C36: in a valid layout reached by engine calls, repositionComponent of *)
(* an item to its own current x and y succeeds, and every item of the     *)
(* returned layout, the moved one included, has the x, y, width and       *)
(* height it had.                                                         *)
C36_RepositionSelfIsIdentity ==
  last.op = "repositionSelf"
    => /\ last.result # null
       /\ \A id \in Ids(last.before) :
            Geometry(last.result, id) = Geometry(last.before, id)
----------------------------------------------------------------------------
(* The three resize operations alone, on every start and sample layout *)

NextResize ==
  \/ \E id \in Ids(items), w \in WidthRequests : ResizeWidth(id, w)
  \/ \E id \in Ids(items), x \in LeftRequests : ResizeLeftEdge(id, x)
  \/ \E id \in Ids(items), h \in HeightRequests : ResizeHeight(id, h)
  \/ \E op \in {"resizeWidth", "resizeLeftEdge", "resizeHeight"} :
       CallAbsent(op)

SpecResize == Init /\ [][NextResize]_vars

====
